---- MODULE Spec2Model ----
(***************************************************************************)
(* Login creation of the identity core: username normalisation, the        *)
(* username-hash cache, the creation kit (server / stash / login           *)
(* fragments) and createLogin with its suspension points.                  *)
(***************************************************************************)
EXTENDS Integers, Naturals, Sequences, FiniteSets, TLC

VARIABLES stashes, userIdCache, scrypts, pc, call, rnd, clock, nCalls,
          kin, mKits, mKit, norm, otp, acct, vouch, accounts,
          msgs, quotes, sorted, reaction, pluginsState

vars == <<stashes, userIdCache, scrypts, pc, call, rnd, clock, nCalls, kin, mKits, mKit,
         norm, otp, acct, vouch, accounts, msgs, quotes, sorted, reaction, pluginsState>>

(***************************************************************************)
(* Bounds                                                                  *)
(***************************************************************************)
MaxCalls == 2
MaxClock == 1
\* the number of stashes in the cached stash trees
MaxNodes == 4
\* the length of the usernames that are normalised
MaxLen == 3
\* the number of vouchers pending on a login
MaxVouchers == 2
\* the number of method calls on one account object
MaxOps == 3
\* the number of accounts that are logged in
MaxAccounts == 2
MaxMsgs == 2
MaxPlugins == 3
MaxDate == 2
MaxActions == 3
MaxChanges == 4
MaxVersion == 2

Procs == {1, 2}

\* the caller that runs one call after the other
Callers == {1}

(***************************************************************************)
(* Values.  Strings are sequences of character codes; every other value is *)
(* a tagged tuple, so that an encoding never coincides with what it        *)
(* encodes.  An optional value is <<>> (undefined) or <<v>>.               *)
(***************************************************************************)
None == <<>>
Some(v) == <<v>>

EmptyObj == [f \in {} |-> f]

\* { ...a, ...b }: the later operand wins on a shared field
Spread(a, b) ==
  [f \in (DOMAIN a) \cup (DOMAIN b) |-> IF f \in DOMAIN b THEN b[f] ELSE a[f]]

\* { name: v } with an undefined value left out
Field(name, optv) == IF optv = None THEN EmptyObj ELSE [f \in {name} |-> optv[1]]

Str(s) == <<"str", s>>
Name(s) == <<"name", s>>
Date(n) == <<"date", n>>
List(s) == <<"list", s>>

\* io.random(n): the k-th draw of the random source
Random(n, k) == <<"bytes", n, k>>
ByteLength(b) == b[2]

\* rfc4648 base64
Base64Stringify(b) == <<"b64", b>>
Base64Parse(s) == s[2]

\* scrypt(ai, fixedName, userIdSnrp): 32 bytes determined by the name
Scrypt(name) == <<"hash", 32, name>>

\* encrypt(io, data, key) and its inverse
Encrypt(data, key) == <<"box", data, key>>
IsBox(v) == v[1] = "box"
Decrypt(box, key) == IF box[3] = key THEN Some(box[2]) ELSE None

(***************************************************************************)
(* Username normalisation                                                  *)
(***************************************************************************)
IsWs(c) == c \in {32, 12, 13, 10, 9, 11}

\* String.prototype.toLowerCase on the characters of the model: A-Z, and the
\* Kelvin sign U+212A whose lower case is "k"
ToLowerCase(s) ==
  [i \in DOMAIN s |-> IF s[i] >= 65 /\ s[i] <= 90 THEN s[i] + 32
                      ELSE IF s[i] = 8490 THEN 107 ELSE s[i]]

RECURSIVE DropWs(_)
DropWs(s) == IF s # <<>> /\ IsWs(Head(s)) THEN DropWs(Tail(s)) ELSE s

\* mutant: each whitespace character becomes a space of its own
CollapseWs_each(s) == [i \in DOMAIN s |-> IF IsWs(s[i]) THEN 32 ELSE s[i]]

RECURSIVE CollapseWs(_)
CollapseWs(s) ==
  IF s = <<>> THEN <<>>
  ELSE IF IsWs(Head(s)) THEN <<32>> \o CollapseWs(DropWs(Tail(s)))
  ELSE <<Head(s)>> \o CollapseWs(Tail(s))

StripTrailing(s) == IF s # <<>> /\ s[Len(s)] = 32 THEN SubSeq(s, 1, Len(s) - 1) ELSE s
StripLeading(s) == IF s # <<>> /\ s[1] = 32 THEN Tail(s) ELSE s

Normalized(s) == StripLeading(StripTrailing(CollapseWs(ToLowerCase(s))))

\* normalize throws 'Bad characters in username' (ok = FALSE) or returns out
fixUsername(s) ==
  LET out == Normalized(s)
  IN IF \E i \in DOMAIN out : out[i] < 32 \/ out[i] > 126
     THEN [ok |-> FALSE, val |-> <<>>]
     ELSE [ok |-> TRUE, val |-> out]

(***************************************************************************)
(* Username-hash cache                                                     *)
(***************************************************************************)
\* mutant: every call starts the computation again
hashUsername_restarts(cache, fixedName) ==
  Spread(cache, [n \in {fixedName} |-> [state |-> "pending", value |-> None]])

\* mutant: a computation that failed is started again
hashUsername_retriesFailed(cache, fixedName) ==
  IF fixedName \in DOMAIN cache /\ cache[fixedName].state # "rejected" THEN cache
  ELSE Spread(cache, [n \in {fixedName} |-> [state |-> "pending", value |-> None]])

\* hashUsername: a missing entry starts the stretching computation
hashUsername(cache, fixedName) ==
  IF fixedName \in DOMAIN cache THEN cache
  ELSE Spread(cache, [n \in {fixedName} |-> [state |-> "pending", value |-> None]])

\* mutant: the stretching is started before the cache is looked at
scryptCalled_beforeLookup(cache, runs, fixedName) ==
  Spread(runs, [n \in {fixedName} |->
                  (IF fixedName \in DOMAIN runs THEN runs[fixedName] ELSE 0) + 1])

\* how often scrypt has been invoked for each name: hashUsername invokes it
\* only in the branch that fills the cache
scryptCalled(cache, runs, fixedName) ==
  IF fixedName \in DOMAIN cache THEN runs
  ELSE Spread(runs, [n \in {fixedName} |->
                       (IF fixedName \in DOMAIN runs THEN runs[fixedName] ELSE 0) + 1])

(***************************************************************************)
(* Errors.  A thrown value is known by whether it is an instance of Error, *)
(* by its name and by its message.                                         *)
(***************************************************************************)
Thrown(isError, name, message) == <<"thrown", isError, name, message>>

\* new Error('Bad characters in username')
BadCharacters == Thrown(TRUE, "Error", "Bad characters in username")

\* what a failed stretching computation rejects with
ScryptFailure == Thrown(TRUE, "Error", "scrypt")

\* mutant: the name of the error is not compared
asMaybeError_anyName(name, raw) == IF raw[2] THEN Some(raw) ELSE None

\* asMaybeError(name): the value itself if it is an Error of that name
asMaybeError(name, raw) == IF raw[2] /\ raw[3] = name THEN Some(raw) ELSE None

asMaybeUsernameError(raw) == asMaybeError("UsernameError", raw)

Bool(b) == <<"bool", b>>

(***************************************************************************)
(* Protocol kits.  A kit is three partial maps; dummyKit has none.         *)
(***************************************************************************)
dummyKit == [server |-> EmptyObj, stash |-> EmptyObj, login |-> EmptyObj]

passwordAuthSnrp == <<"snrp", "passwordAuth">>

\* Password protocol: passwordAuth stretched from (username, password),
\* stored boxed under the login's loginKey
makePasswordKit(login, username, password) ==
  LET passwordAuth == <<"passwordAuth", username, password>>
      passwordAuthBox == Encrypt(passwordAuth, login.loginKey)
  IN [server |-> [passwordAuth |-> Base64Stringify(passwordAuth),
                  passwordAuthBox |-> passwordAuthBox,
                  passwordAuthSnrp |-> passwordAuthSnrp],
      stash |-> [passwordAuthBox |-> passwordAuthBox,
                 passwordAuthSnrp |-> passwordAuthSnrp],
      login |-> [passwordAuth |-> passwordAuth]]

\* Pin2 protocol: pin2Id / pin2Auth derived from (appId, username, pin);
\* the stash keeps pin2Key itself, which getPin2Key reads back without a key
makeChangePin2Kit(login, username, pin) ==
  LET pin2Key == <<"pin2Key", login.appId, username>>
      pin2TextBox == Encrypt(Str(pin), login.loginKey)
  IN [server |-> [pin2Id |-> <<"pin2Id", pin2Key, username>>,
                  pin2Auth |-> Base64Stringify(<<"pin2Auth", pin2Key, pin>>),
                  pin2KeyBox |-> Encrypt(pin2Key, login.loginKey),
                  pin2TextBox |-> pin2TextBox],
      stash |-> [pin2Key |-> pin2Key, pin2TextBox |-> pin2TextBox],
      login |-> [pin |-> Str(pin), pin2Key |-> pin2Key]]

\* Keys protocol: the wallet key info boxed under loginKey
makeKeysKit(login, keyInfo) ==
  LET keyBoxes == List(<<Encrypt(<<"keyInfo", keyInfo>>, login.loginKey)>>)
  IN [server |-> [keyBoxes |-> keyBoxes, newSyncKeys |-> <<"syncKeys", keyInfo>>],
      stash |-> [keyBoxes |-> keyBoxes],
      login |-> [keyInfos |-> List(<<<<"keyInfo", keyInfo>>>>)]]

\* mutant: the password kit is never built
passwordKitOf_dropped(opts, login, username) == dummyKit

\* opts.password != null ? makePasswordKit(...) : Promise.resolve(dummyKit)
passwordKitOf(opts, login, username) ==
  IF opts.password # None THEN makePasswordKit(login, username, opts.password[1])
  ELSE dummyKit

\* opts.pin != null ? makeChangePin2Kit(...) : dummyKit
pin2KitOf(opts, login, username) ==
  IF opts.pin # None THEN makeChangePin2Kit(login, username, opts.pin[1])
  ELSE dummyKit

\* opts.keyInfo != null ? makeKeysKit(...) : dummyKit
keysKitOf(opts, login) ==
  IF opts.keyInfo # None THEN makeKeysKit(login, opts.keyInfo[1]) ELSE dummyKit

(***************************************************************************)
(* Payload uncleaners: byte arrays go on the wire as base64 text, boxes    *)
(* and strings are already in wire form.                                   *)
(***************************************************************************)
wasChangeSecretPayload(loginAuth, loginAuthBox) ==
  [loginAuth |-> Base64Stringify(loginAuth), loginAuthBox |-> loginAuthBox]

wasCreateLoginPayload(appId, loginId, parentBox) ==
  Spread([appId |-> Str(appId), loginId |-> loginId], Field("parentBox", parentBox))

(***************************************************************************)
(* makeCreateKit                                                           *)
(***************************************************************************)
\* mutant: the test on parentLogin is inverted
loginIdRawOf_swapped(parentLogin, randomId, userId) ==
  IF parentLogin = None THEN randomId ELSE userId

\* loginId before base64: random for a child, the username hash for a root
loginIdRawOf(parentLogin, randomId, userId) ==
  IF parentLogin # None THEN randomId ELSE userId

\* mutant: the arguments of encrypt are exchanged
parentBoxOf_swappedArgs(parentLogin, loginKey) ==
  IF parentLogin # None THEN Some(Encrypt(parentLogin[1].loginKey, loginKey)) ELSE None

\* mutant: the loginKey is sent as it is
parentBoxOf_unboxed(parentLogin, loginKey) ==
  IF parentLogin # None THEN Some(loginKey) ELSE None

\* the new loginKey boxed under the parent's loginKey, if there is a parent
parentBoxOf(parentLogin, loginKey) ==
  IF parentLogin # None THEN Some(Encrypt(loginKey, parentLogin[1].loginKey)) ELSE None

kitServer(appId, loginId, parentBox, loginAuth, loginAuthBox, keysKit, passwordKit, pin2Kit) ==
  Spread(Spread(Spread(Spread(
    wasCreateLoginPayload(appId, loginId, parentBox),
    keysKit.server), passwordKit.server), pin2Kit.server),
    wasChangeSecretPayload(loginAuth, loginAuthBox))

\* mutant: the password kit's login fragment is spread into the stash
kitStash_spreadsLogin(appId, loginId, parentBox, loginAuthBox, keysKit, passwordKit, pin2Kit) ==
  Spread(Spread(Spread(Spread(
    [appId |-> Str(appId), loginAuthBox |-> loginAuthBox, loginId |-> loginId],
    Field("parentBox", parentBox)),
    passwordKit.login), pin2Kit.stash), keysKit.stash)

kitStash(appId, loginId, parentBox, loginAuthBox, keysKit, passwordKit, pin2Kit) ==
  Spread(Spread(Spread(Spread(
    [appId |-> Str(appId), loginAuthBox |-> loginAuthBox, loginId |-> loginId],
    Field("parentBox", parentBox)),
    passwordKit.stash), pin2Kit.stash), keysKit.stash)

\* mutant: the login fragment gets the root appId
kitLogin_blankAppId(appId, loginId, loginKey, loginAuth, keysKit, passwordKit, pin2Kit) ==
  Spread(Spread(Spread(
    [appId |-> Str(""), loginAuth |-> loginAuth, loginId |-> loginId,
     loginKey |-> loginKey, keyInfos |-> List(<<>>)],
    passwordKit.login), pin2Kit.login), keysKit.login)

kitLogin(appId, loginId, loginKey, loginAuth, keysKit, passwordKit, pin2Kit) ==
  Spread(Spread(Spread(
    [appId |-> Str(appId), loginAuth |-> loginAuth, loginId |-> loginId,
     loginKey |-> loginKey, keyInfos |-> List(<<>>)],
    passwordKit.login), pin2Kit.login), keysKit.login)

\* the merged kit, built once loginId and the password kit have resolved
makeCreateKit(loginIdRaw, appId, loginKey, loginAuth, parentBox, keysKit, passwordKit, pin2Kit) ==
  LET loginId == Base64Stringify(loginIdRaw)
      loginAuthBox == Encrypt(loginAuth, loginKey)
  IN [loginId |-> loginId,
      serverPath |-> "/v2/login/create",
      server |-> kitServer(appId, loginId, parentBox, loginAuth, loginAuthBox,
                           keysKit, passwordKit, pin2Kit),
      stash |-> kitStash(appId, loginId, parentBox, loginAuthBox,
                         keysKit, passwordKit, pin2Kit),
      login |-> kitLogin(appId, loginId, loginKey, loginAuth,
                         keysKit, passwordKit, pin2Kit)]

(***************************************************************************)
(* createLogin, the statements around its three awaits                     *)
(***************************************************************************)
\* mutant: the username is attached to the stash only
attachUser_noLoginName(kit, fixedName) ==
  [loginId |-> kit.loginId, serverPath |-> kit.serverPath, server |-> kit.server,
   stash |-> Spread(kit.stash, [username |-> Name(fixedName)]),
   login |-> Spread(kit.login, [userId |-> kit.login.loginId])]

\* kit.login.username, kit.stash.username, kit.login.userId
attachUser(kit, fixedName) ==
  [loginId |-> kit.loginId, serverPath |-> kit.serverPath, server |-> kit.server,
   stash |-> Spread(kit.stash, [username |-> Name(fixedName)]),
   login |-> Spread(kit.login, [username |-> Name(fixedName),
                                userId |-> kit.login.loginId])]

\* mutant: accountOpts.now is ignored
nowOf_ignoresOption(accountNow, time) == Date(time)

\* const { now = new Date() } = accountOpts
nowOf(accountNow, time) == IF accountNow # None THEN accountNow[1] ELSE Date(time)

\* kit.stash.lastLogin = now
stampLastLogin(kit, now) ==
  [loginId |-> kit.loginId, serverPath |-> kit.serverPath, server |-> kit.server,
   stash |-> Spread(kit.stash, [lastLogin |-> now]),
   login |-> kit.login]

\* mutant: the request carries the login fragment
createRequest_sendsLogin(kit) ==
  [method |-> "POST", path |-> kit.serverPath, data |-> kit.login]

\* const request = { data: kit.server }, POSTed to kit.serverPath
createRequest(kit) == [method |-> "POST", path |-> kit.serverPath, data |-> kit.server]

\* mutant: the store is rewritten with the one stash
saveStash_onlyThis(all, stash) ==
  [n \in {fixUsername(stash.username[2]).val} |-> stash]

\* mutant: the stash is merged into the one that is stored
saveStash_merges(all, stash) ==
  LET name == fixUsername(stash.username[2]).val
  IN Spread(all, [n \in {name} |->
       IF name \in DOMAIN all THEN Spread(all[name], stash) ELSE stash])

\* saveStash: the stash replaces whatever is stored under its username
saveStash(all, stash) ==
  Spread(all, [n \in {fixUsername(stash.username[2]).val} |-> stash])

(***************************************************************************)
(* Inputs                                                                  *)
(***************************************************************************)
\* "B", "a<tab> " and a name with a character outside ASCII
Usernames == {<<66>>, <<97, 9, 32>>, <<233>>}

Passwords == {None, Some("hunter2")}
Pins == {None, Some("1234")}
KeyInfos == {None, Some("wallet")}
OptsSet == [password : Passwords, pin : Pins, keyInfo : KeyInfos]

\* the option combinations createLogin is driven with: none, password and
\* pin, pin and keys, all three
LoginOpts == {o \in OptsSet : o.password # None \/ o.keyInfo # None => o.pin # None}
               \ {o \in OptsSet : o.password = None /\ o.keyInfo = None /\ o.pin # None}

\* the names hashUsername is called with: "B" and "b" normalise to the same
HashUsernames == Usernames \cup {<<98>>}

\* what the server can answer to the probe of usernameAvailable
ServerReplies == {<<"reply", "login">>, <<"reply", "empty">>}

ErrorNames == {"UsernameError", "NetworkError", "ObsoleteApiError", "OtpError",
               "PasswordError", "Error"}

\* what loginFetch can reject with: an Error of each name, or a thrown value
\* that is no Error at all
ServerErrors == {Thrown(TRUE, n, "") : n \in ErrorNames}
                  \cup {Thrown(FALSE, "UsernameError", "")}

\* which synchronous kit builder throws, if it is called at all
Faults == {"none", "pin2", "keys"}

AccountNows == {None, Some(Date(100))}

\* login trees a child login can be created under
\* (the parent's loginKey was the first draw of the random source)
ParentLogins == {[appId |-> Str(""), loginKey |-> Random(32, 0)]}
AppIds == {"", "app"}

KitInputs == [parent : {None} \cup {Some(l) : l \in ParentLogins}, appId : AppIds,
              username : Usernames, opts : OptsSet, fault : Faults]

NoKit == [loginId |-> None, serverPath |-> "", server |-> EmptyObj,
          stash |-> EmptyObj, login |-> EmptyObj]

NoCall == [kind |-> "none", input |-> <<>>, username |-> <<>>, userIdKey |-> <<>>,
           now |-> Date(0), parent |-> None, appId |-> "",
           opts |-> [password |-> None, pin |-> None, keyInfo |-> None],
           loginIdRaw |-> None, loginKey |-> None, loginAuth |-> None,
           parentBox |-> None, keysKit |-> dummyKit, passwordKit |-> dummyKit,
           pin2Kit |-> dummyKit, kit |-> NoKit, request |-> None,
           error |-> "", result |-> EmptyObj,
           \* the requests the call has handed to loginFetch
           sent |-> <<>>,
           \* the value returned, the value thrown, the outcome of the probe
           ret |-> None, thrown |-> None, probe |-> None,
           \* what the call was given and found, kept for the properties
           accountNow |-> None, startedAt |-> 0, rndAt |-> 0, before |-> EmptyObj]

NoKin == [parent |-> None, appId |-> "", username |-> <<>>,
          opts |-> [password |-> None, pin |-> None, keyInfo |-> None],
          fault |-> "none"]

\* the state of login creation and of the lookups
loginVars == <<stashes, userIdCache, scrypts, pc, call, rnd, clock, nCalls>>

\* the inputs of the kit specifications
kitVars == <<kin, mKits, mKit>>

\* a username being normalised: the input and the results of fixUsername
NoNorm == [input |-> <<>>, outs |-> <<>>]

\* everything outside the login machine
otherVars == <<kin, mKits, mKit, norm, otp, acct, vouch, accounts, msgs, quotes, sorted, reaction, pluginsState>>

\* the state of the message fetch, the swap quotes, the transaction list,
\* the transaction reaction and the plugins
coreVars == <<msgs, quotes, sorted, reaction, pluginsState>>

CoreInit ==
  /\ msgs = None
  /\ quotes = None
  /\ sorted = None
  /\ reaction = None
  /\ pluginsState = None

\* nothing else is going on
ExtraInit ==
  /\ norm = NoNorm
  /\ otp = None
  /\ acct = None
  /\ vouch = None
  /\ accounts = EmptyObj
  /\ CoreInit

(***************************************************************************)
(* State                                                                   *)
(***************************************************************************)
Init ==
  /\ stashes = EmptyObj
  /\ userIdCache = EmptyObj
  /\ scrypts = EmptyObj
  /\ pc = [p \in Procs |-> "idle"]
  /\ call = [p \in Procs |-> NoCall]
  /\ rnd = 1
  /\ clock = 0
  /\ nCalls = 0
  /\ kin = NoKin
  /\ mKits = [keys |-> dummyKit, password |-> dummyKit, pin2 |-> dummyKit]
  /\ mKit = NoKit
  /\ ExtraInit

Reject(p, c, why) ==
  /\ pc' = [pc EXCEPT ![p] = "rejected"]
  /\ call' = [call EXCEPT ![p] = [c EXCEPT !.error = why]]

RejectWith(p, c, why, err) ==
  /\ pc' = [pc EXCEPT ![p] = "rejected"]
  /\ call' = [call EXCEPT ![p] = [c EXCEPT !.error = why, !.thrown = Some(err)]]

(***************************************************************************)
(* makeCreateKit up to Promise.all: identity, random keys, the kit         *)
(* builders.  c carries the caller's locals.                               *)
(***************************************************************************)
makeCreateKitSync(p, c, fault) ==
  LET root == c.parent = None
      fx == fixUsername(c.username)
      r1 == IF root THEN rnd ELSE rnd + 1
      loginKey == Random(32, r1)
      dummyLogin == [appId |-> c.appId, loginKey |-> loginKey]
      passwordKit == passwordKitOf(c.opts, dummyLogin, c.username)
      pin2Kit == pin2KitOf(c.opts, dummyLogin, c.username)
      keysKit == keysKitOf(c.opts, dummyLogin)
      throws == \/ c.opts.pin # None /\ fault = "pin2"
                \/ c.opts.keyInfo # None /\ fault = "keys"
  IN IF root /\ ~fx.ok
     THEN /\ Reject(p, c, "username")
          /\ UNCHANGED <<userIdCache, scrypts, rnd>>
     ELSE /\ userIdCache' = IF root THEN hashUsername(userIdCache, fx.val)
                            ELSE userIdCache
          /\ scrypts' = IF root THEN scryptCalled(userIdCache, scrypts, fx.val)
                        ELSE scrypts
          /\ IF throws
             THEN /\ Reject(p, c, "kit")
                  /\ rnd' = r1 + 1
             ELSE /\ pc' = [pc EXCEPT ![p] = "awaitKit"]
                  /\ call' = [call EXCEPT ![p] =
                       [c EXCEPT !.userIdKey = IF root THEN fx.val ELSE <<>>,
                                 !.loginIdRaw = IF root THEN None ELSE Some(Random(32, rnd)),
                                 !.loginKey = Some(loginKey),
                                 !.parentBox = parentBoxOf(c.parent, loginKey),
                                 !.passwordKit = passwordKit,
                                 !.pin2Kit = pin2Kit,
                                 !.keysKit = keysKit,
                                 !.loginAuth = Some(Random(32, r1 + 1))]]
                  /\ rnd' = r1 + 2

\* createLogin(ai, username, accountOpts, opts), up to its first await
createLogin(p, username, accountNow, opts, fault) ==
  /\ pc[p] = "idle"
  /\ nCalls < MaxCalls
  /\ nCalls' = nCalls + 1
  /\ LET fixedName == fixUsername(username)
         c == [NoCall EXCEPT !.kind = "createLogin", !.input = username,
                             !.username = fixedName.val,
                             !.now = nowOf(accountNow, clock), !.opts = opts,
                             !.accountNow = accountNow, !.startedAt = clock,
                             !.rndAt = rnd, !.before = stashes]
     IN IF ~fixedName.ok
        THEN /\ Reject(p, c, "username")
             /\ UNCHANGED <<userIdCache, scrypts, rnd>>
        ELSE makeCreateKitSync(p, c, fault)
  /\ UNCHANGED <<stashes, clock, otherVars>>

\* makeCreateKit(ai, parentLogin, appId, username, opts) called on its own
callMakeCreateKit(p, parentLogin, appId, username, opts, fault) ==
  /\ pc[p] = "idle"
  /\ nCalls < MaxCalls
  /\ nCalls' = nCalls + 1
  /\ makeCreateKitSync(p, [NoCall EXCEPT !.kind = "makeCreateKit", !.input = username,
                                         !.username = username,
                                         !.parent = parentLogin,
                                         !.appId = appId, !.opts = opts,
                                         !.rndAt = rnd, !.before = stashes], fault)
  /\ UNCHANGED <<stashes, clock, otherVars>>

\* the stretching computation of a cached name settles
scryptResolve(name) ==
  /\ name \in DOMAIN userIdCache
  /\ userIdCache[name].state = "pending"
  /\ userIdCache' = [userIdCache EXCEPT ![name] =
                       [state |-> "resolved", value |-> Some(Scrypt(name))]]
  /\ UNCHANGED <<stashes, scrypts, pc, call, rnd, clock, nCalls, otherVars>>

scryptReject(name) ==
  /\ name \in DOMAIN userIdCache
  /\ userIdCache[name].state = "pending"
  /\ userIdCache' = [userIdCache EXCEPT ![name] =
                       [state |-> "rejected", value |-> Some(ScryptFailure)]]
  /\ UNCHANGED <<stashes, scrypts, pc, call, rnd, clock, nCalls, otherVars>>

\* Promise.all([loginId, passwordKit]) resolves: bundle; createLogin goes on
\* to attach the user and send the request
kitResolved(p) ==
  /\ pc[p] = "awaitKit"
  /\ LET c == call[p]
         root == c.parent = None
     IN /\ root => userIdCache[c.userIdKey].state = "resolved"
        /\ LET userId == IF root THEN userIdCache[c.userIdKey].value[1] ELSE None
               randomId == IF root THEN None ELSE c.loginIdRaw[1]
               kit == makeCreateKit(loginIdRawOf(c.parent, randomId, userId),
                                    c.appId, c.loginKey[1], c.loginAuth[1],
                                    c.parentBox, c.keysKit, c.passwordKit, c.pin2Kit)
           IN IF c.kind = "makeCreateKit"
              THEN /\ pc' = [pc EXCEPT ![p] = "kitDone"]
                   /\ call' = [call EXCEPT ![p] = [c EXCEPT !.kit = kit]]
              ELSE /\ pc' = [pc EXCEPT ![p] = "fetching"]
                   /\ call' = [call EXCEPT ![p] =
                        [c EXCEPT !.kit = attachUser(kit, c.username),
                                  !.request = Some(createRequest(attachUser(kit, c.username))),
                                  !.sent = Append(c.sent, createRequest(attachUser(kit, c.username)))]]
  /\ UNCHANGED <<stashes, userIdCache, scrypts, rnd, clock, nCalls, otherVars>>

\* Promise.all rejects: the username hash failed, or the password kit did
kitRejected(p) ==
  /\ pc[p] = "awaitKit"
  /\ LET c == call[p]
     IN \/ /\ c.parent = None
           /\ userIdCache[c.userIdKey].state = "rejected"
           /\ RejectWith(p, c, "hash", userIdCache[c.userIdKey].value[1])
        \/ /\ c.opts.password # None
           /\ Reject(p, c, "kit")
  /\ UNCHANGED <<stashes, userIdCache, scrypts, rnd, clock, nCalls, otherVars>>

\* the server accepts the creation: stamp lastLogin, start saving
fetchOk(p) ==
  /\ pc[p] = "fetching"
  /\ pc' = [pc EXCEPT ![p] = "saving"]
  /\ call' = [call EXCEPT ![p].kit = stampLastLogin(call[p].kit, call[p].now)]
  /\ UNCHANGED <<stashes, userIdCache, scrypts, rnd, clock, nCalls, otherVars>>

\* mutant: the stash is saved before the request is awaited
fetchFail_savedFirst(p) ==
  /\ pc[p] = "fetching"
  /\ stashes' = saveStash(stashes, call[p].kit.stash)
  /\ Reject(p, call[p], "server")
  /\ UNCHANGED <<userIdCache, scrypts, rnd, clock, nCalls, otherVars>>

\* loginFetch rejects
fetchFail(p) ==
  /\ pc[p] = "fetching"
  /\ Reject(p, call[p], "server")
  /\ UNCHANGED <<stashes, userIdCache, scrypts, rnd, clock, nCalls, otherVars>>

\* saveStash resolves: the stash is persisted, kit.login is returned
saveOk(p) ==
  /\ pc[p] = "saving"
  /\ stashes' = saveStash(stashes, call[p].kit.stash)
  /\ pc' = [pc EXCEPT ![p] = "done"]
  /\ call' = [call EXCEPT ![p].result = call[p].kit.login]
  /\ UNCHANGED <<userIdCache, scrypts, rnd, clock, nCalls, otherVars>>

\* mutant: the failure of the save is swallowed and the login is returned
saveFail_returnsLogin(p) ==
  /\ pc[p] = "saving"
  /\ pc' = [pc EXCEPT ![p] = "done"]
  /\ call' = [call EXCEPT ![p].result = call[p].kit.login]
  /\ UNCHANGED <<stashes, userIdCache, scrypts, rnd, clock, nCalls, otherVars>>

\* saveStash rejects
saveFail(p) ==
  /\ pc[p] = "saving"
  /\ Reject(p, call[p], "save")
  /\ UNCHANGED <<stashes, userIdCache, scrypts, rnd, clock, nCalls, otherVars>>

(***************************************************************************)
(* hashUsername and usernameAvailable                                      *)
(***************************************************************************)
\* mutant: the cache is keyed by the username as given
hashStart_rawKey(p, kind, username) ==
  LET fx == fixUsername(username)
      c == [NoCall EXCEPT !.kind = kind, !.input = username,
                          !.rndAt = rnd, !.before = stashes]
  IN IF ~fx.ok
     THEN /\ RejectWith(p, c, "username", BadCharacters)
          /\ UNCHANGED <<userIdCache, scrypts>>
     ELSE /\ userIdCache' = hashUsername(userIdCache, username)
          /\ scrypts' = scryptCalled(userIdCache, scrypts, username)
          /\ pc' = [pc EXCEPT ![p] = "awaitHash"]
          /\ call' = [call EXCEPT ![p] =
               [c EXCEPT !.username = fx.val, !.userIdKey = username]]

\* hashUsername up to the promise it returns: fixUsername throws, or the
\* cache is filled if need be and its entry is what the caller waits for
hashStart(p, kind, username) ==
  LET fx == fixUsername(username)
      c == [NoCall EXCEPT !.kind = kind, !.input = username,
                          !.rndAt = rnd, !.before = stashes]
  IN IF ~fx.ok
     THEN /\ RejectWith(p, c, "username", BadCharacters)
          /\ UNCHANGED <<userIdCache, scrypts>>
     ELSE /\ userIdCache' = hashUsername(userIdCache, fx.val)
          /\ scrypts' = scryptCalled(userIdCache, scrypts, fx.val)
          /\ pc' = [pc EXCEPT ![p] = "awaitHash"]
          /\ call' = [call EXCEPT ![p] =
               [c EXCEPT !.username = fx.val, !.userIdKey = fx.val]]

\* hashUsername(ai, username) called on its own
callHashUsername(p, username) ==
  /\ pc[p] = "idle"
  /\ nCalls < MaxCalls
  /\ nCalls' = nCalls + 1
  /\ hashStart(p, "hashUsername", username)
  /\ UNCHANGED <<stashes, rnd, clock, otherVars>>

\* usernameAvailable(ai, username), up to the .then on the hash
usernameAvailable(p, username) ==
  /\ pc[p] = "idle"
  /\ nCalls < MaxCalls
  /\ nCalls' = nCalls + 1
  /\ hashStart(p, "usernameAvailable", username)
  /\ UNCHANGED <<stashes, rnd, clock, otherVars>>

\* { userId: base64.stringify(userId) }, POSTed to /v2/login
probeRequest(userId) ==
  [method |-> "POST", path |-> "/v2/login", data |-> [userId |-> Base64Stringify(userId)]]

\* the hash the call waits for resolves: hashUsername's caller has its
\* userId, usernameAvailable sends the probe
hashResolved(p) ==
  /\ pc[p] = "awaitHash"
  /\ userIdCache[call[p].userIdKey].state = "resolved"
  /\ LET c == call[p]
         userId == userIdCache[c.userIdKey].value[1]
     IN IF c.kind = "hashUsername"
        THEN /\ pc' = [pc EXCEPT ![p] = "done"]
             /\ call' = [call EXCEPT ![p] = [c EXCEPT !.ret = Some(userId)]]
        ELSE /\ pc' = [pc EXCEPT ![p] = "probing"]
             /\ call' = [call EXCEPT ![p] =
                  [c EXCEPT !.request = Some(probeRequest(userId)),
                            !.sent = Append(c.sent, probeRequest(userId))]]
  /\ UNCHANGED <<stashes, userIdCache, scrypts, rnd, clock, nCalls, otherVars>>

\* the hash rejects: the rejection passes through .then untouched
hashRejected(p) ==
  /\ pc[p] = "awaitHash"
  /\ userIdCache[call[p].userIdKey].state = "rejected"
  /\ RejectWith(p, call[p], "hash", userIdCache[call[p].userIdKey].value[1])
  /\ UNCHANGED <<stashes, userIdCache, scrypts, rnd, clock, nCalls, otherVars>>

\* .then(reply => false)
probeOk(p, reply) ==
  /\ pc[p] = "probing"
  /\ pc' = [pc EXCEPT ![p] = "done"]
  /\ call' = [call EXCEPT ![p] =
       [call[p] EXCEPT !.probe = Some(reply), !.ret = Some(Bool(FALSE))]]
  /\ UNCHANGED <<stashes, userIdCache, scrypts, rnd, clock, nCalls, otherVars>>

\* mutant: every failure of the probe counts as "taken"
probeFail_swallows(p, error) ==
  /\ pc[p] = "probing"
  /\ LET c == [call[p] EXCEPT !.probe = Some(error)]
     IN /\ pc' = [pc EXCEPT ![p] = "done"]
        /\ call' = [call EXCEPT ![p] =
             [c EXCEPT !.ret = Some(Bool(asMaybeUsernameError(error) # None))]]
  /\ UNCHANGED <<stashes, userIdCache, scrypts, rnd, clock, nCalls, otherVars>>

\* .catch(error => { if (asMaybeUsernameError(error) != null) return true;
\* throw error })
probeFail(p, error) ==
  /\ pc[p] = "probing"
  /\ LET c == [call[p] EXCEPT !.probe = Some(error)]
     IN IF asMaybeUsernameError(error) # None
        THEN /\ pc' = [pc EXCEPT ![p] = "done"]
             /\ call' = [call EXCEPT ![p] = [c EXCEPT !.ret = Some(Bool(TRUE))]]
        ELSE RejectWith(p, c, "server", error)
  /\ UNCHANGED <<stashes, userIdCache, scrypts, rnd, clock, nCalls, otherVars>>

(***************************************************************************)
(* getStash                                                                *)
(***************************************************************************)
\* { username: fixedName, appId: '', loginId: '', pendingVouchers: [] }
defaultStash(fixedName) ==
  [username |-> Name(fixedName), appId |-> Str(""), loginId |-> Str(""),
   pendingVouchers |-> List(<<>>)]

\* mutant: the stashes are looked up by the username as given
getStash_rawLookup(all, username) ==
  LET fx == fixUsername(username)
  IN IF ~fx.ok THEN [ok |-> FALSE, val |-> BadCharacters]
     ELSE IF username \in DOMAIN all THEN [ok |-> TRUE, val |-> all[username]]
     ELSE [ok |-> TRUE, val |-> defaultStash(fx.val)]

\* getStash: fixUsername throws (ok = FALSE), or the cached stash of the
\* normalised name, or the default stash
getStash(all, username) ==
  LET fx == fixUsername(username)
  IN IF ~fx.ok THEN [ok |-> FALSE, val |-> BadCharacters]
     ELSE IF fx.val \in DOMAIN all THEN [ok |-> TRUE, val |-> all[fx.val]]
     ELSE [ok |-> TRUE, val |-> defaultStash(fx.val)]

\* mutant: the default stash is put into the cache
callGetStash_storesDefault(p, username) ==
  /\ pc[p] = "idle"
  /\ nCalls < MaxCalls
  /\ nCalls' = nCalls + 1
  /\ LET c == [NoCall EXCEPT !.kind = "getStash", !.input = username,
                             !.rndAt = rnd, !.before = stashes]
         r == getStash(stashes, username)
     IN IF r.ok
        THEN /\ pc' = [pc EXCEPT ![p] = "done"]
             /\ call' = [call EXCEPT ![p] = [c EXCEPT !.ret = Some(r.val)]]
             /\ stashes' = saveStash(stashes, r.val)
        ELSE /\ RejectWith(p, c, "username", r.val)
             /\ UNCHANGED stashes
  /\ UNCHANGED <<userIdCache, scrypts, rnd, clock, otherVars>>

\* getStash(ai, username) called on the stashes as they are
callGetStash(p, username) ==
  /\ pc[p] = "idle"
  /\ nCalls < MaxCalls
  /\ nCalls' = nCalls + 1
  /\ LET c == [NoCall EXCEPT !.kind = "getStash", !.input = username,
                             !.rndAt = rnd, !.before = stashes]
         r == getStash(stashes, username)
     IN IF r.ok
        THEN /\ pc' = [pc EXCEPT ![p] = "done"]
             /\ call' = [call EXCEPT ![p] = [c EXCEPT !.ret = Some(r.val)]]
        ELSE RejectWith(p, c, "username", r.val)
  /\ UNCHANGED <<stashes, userIdCache, scrypts, rnd, clock, otherVars>>

(***************************************************************************)
(* getStashById                                                            *)
(***************************************************************************)
\* mutant: only the root of a tree is looked at
searchTree_rootOnly(node, loginId) ==
  IF node.loginId = loginId THEN Some(node) ELSE None

RECURSIVE searchTree(_, _)
RECURSIVE searchChildren(_, _)

\* searchTree(node, stash => stash.loginId === loginId): the node itself, or
\* the first match among its children, depth first
searchTree(node, loginId) ==
  IF node.loginId = loginId THEN Some(node)
  ELSE IF "children" \notin DOMAIN node THEN None
  ELSE searchChildren(node.children, loginId)

searchChildren(children, loginId) ==
  IF children = <<>> THEN None
  ELSE LET found == searchTree(Head(children), loginId)
       IN IF found # None THEN found ELSE searchChildren(Tail(children), loginId)

\* new Error(`Cannot find stash ${loginId}`)
CannotFindStash == Thrown(TRUE, "Error", "Cannot find stash")

\* getStashById(ai, loginId): the first root, in the order of Object.keys,
\* whose tree has the node; login ids are unique, so at most one has
callGetStashById(p, loginId) ==
  /\ pc[p] = "idle"
  /\ nCalls < MaxCalls
  /\ nCalls' = nCalls + 1
  /\ LET c == [NoCall EXCEPT !.kind = "getStashById", !.input = loginId,
                             !.rndAt = rnd, !.before = stashes]
         roots == {username \in DOMAIN stashes :
                     searchTree(stashes[username], loginId) # None}
     IN IF roots = {}
        THEN RejectWith(p, c, "stash", CannotFindStash)
        ELSE \E username \in roots :
               /\ pc' = [pc EXCEPT ![p] = "done"]
               /\ call' = [call EXCEPT ![p] = [c EXCEPT !.ret =
                    Some([stashTree |-> stashes[username],
                          stash |-> searchTree(stashes[username], loginId)[1]])]]
  /\ UNCHANGED <<stashes, userIdCache, scrypts, rnd, clock, otherVars>>

(***************************************************************************)
(* deleteLocalAccount                                                      *)
(***************************************************************************)
\* new Error('Cannot remove logged-in user')
CannotRemove == Thrown(TRUE, "Error", "Cannot remove logged-in user")

\* removeStash: the stash of the normalised username is gone
removeStash(all, username) ==
  [n \in DOMAIN all \ {fixUsername(username).val} |-> all[n]]

\* mutant: the logged-in users are compared with the username as given
deleteLocalAccount_rawCompare(p, username) ==
  /\ pc[p] = "idle"
  /\ nCalls < MaxCalls
  /\ nCalls' = nCalls + 1
  /\ LET fixedName == fixUsername(username)
         c == [NoCall EXCEPT !.kind = "deleteLocalAccount", !.input = username,
                             !.rndAt = rnd, !.before = stashes]
     IN IF ~fixedName.ok THEN RejectWith(p, c, "username", BadCharacters)
        ELSE IF \E accountId \in DOMAIN accounts :
                  accounts[accountId].username = Name(username)
        THEN RejectWith(p, c, "loggedIn", CannotRemove)
        ELSE /\ pc' = [pc EXCEPT ![p] = "removing"]
             /\ call' = [call EXCEPT ![p] = [c EXCEPT !.username = fixedName.val]]
  /\ UNCHANGED <<stashes, userIdCache, scrypts, rnd, clock, otherVars>>

\* deleteLocalAccount(username) up to removeStash: the safety check
deleteLocalAccount(p, username) ==
  /\ pc[p] = "idle"
  /\ nCalls < MaxCalls
  /\ nCalls' = nCalls + 1
  /\ LET fixedName == fixUsername(username)
         c == [NoCall EXCEPT !.kind = "deleteLocalAccount", !.input = username,
                             !.rndAt = rnd, !.before = stashes]
     IN IF ~fixedName.ok THEN RejectWith(p, c, "username", BadCharacters)
        ELSE IF \E accountId \in DOMAIN accounts :
                  accounts[accountId].username = Name(fixedName.val)
        THEN RejectWith(p, c, "loggedIn", CannotRemove)
        ELSE /\ pc' = [pc EXCEPT ![p] = "removing"]
             /\ call' = [call EXCEPT ![p] = [c EXCEPT !.username = fixedName.val]]
  /\ UNCHANGED <<stashes, userIdCache, scrypts, rnd, clock, otherVars>>

\* removeStash(ai, username) resolves
removeOk(p) ==
  /\ pc[p] = "removing"
  /\ stashes' = removeStash(stashes, call[p].input)
  /\ pc' = [pc EXCEPT ![p] = "done"]
  /\ call' = call
  /\ UNCHANGED <<userIdCache, scrypts, rnd, clock, nCalls, otherVars>>

\* the caller drops the settled promise
settle(p) ==
  /\ pc[p] \in {"done", "rejected", "kitDone"}
  /\ pc' = [pc EXCEPT ![p] = "idle"]
  /\ call' = [call EXCEPT ![p] = NoCall]
  /\ UNCHANGED <<stashes, userIdCache, scrypts, rnd, clock, nCalls, otherVars>>

\* time passes
tick ==
  /\ clock < MaxClock
  /\ clock' = clock + 1
  /\ UNCHANGED <<stashes, userIdCache, scrypts, pc, call, rnd, nCalls, otherVars>>

(***************************************************************************)
(* Spec: createLogin called again and again by one caller                  *)
(***************************************************************************)
Next ==
  \/ \E p \in Callers, u \in Usernames, n \in AccountNows, o \in LoginOpts, f \in Faults :
       createLogin(p, u, n, o, f)
  \/ \E name \in DOMAIN userIdCache : scryptResolve(name)
  \/ \E name \in DOMAIN userIdCache : scryptReject(name)
  \/ \E p \in Callers : kitResolved(p)
  \/ \E p \in Callers : kitRejected(p)
  \/ \E p \in Callers : fetchOk(p)
  \/ \E p \in Callers : fetchFail(p)
  \/ \E p \in Callers : saveOk(p)
  \/ \E p \in Callers : saveFail(p)
  \/ \E p \in Callers : settle(p)
  \/ tick
  \/ \E p \in Callers, u \in HashUsernames : callHashUsername(p, u)
  \/ \E p \in Callers, u \in Usernames : usernameAvailable(p, u)
  \/ \E p \in Callers : hashResolved(p)
  \/ \E p \in Callers : hashRejected(p)
  \/ \E p \in Callers, r \in ServerReplies : probeOk(p, r)
  \/ \E p \in Callers, e \in ServerErrors : probeFail(p, e)
  \/ \E p \in Callers, u \in HashUsernames : callGetStash(p, u)

Spec == Init /\ [][Next]_vars

(***************************************************************************)
(* Properties of createLogin (Spec)                                        *)
(***************************************************************************)
PreSaveFailures == {"username", "kit", "hash", "server"}

\* C1: createLogin is all-or-nothing for local state.  saveStash is started
\* only by a call whose request has succeeded, the persisted stashes change
\* only when such a save completes, and a call rejected because of the
\* username, a kit builder, the username hash or the server leaves the
\* persisted stashes exactly as they were when it was called.
C1_AllOrNothing ==
  [][ /\ \A p \in Procs :
           (pc'[p] = "saving" /\ pc[p] # "saving") =>
             (pc[p] = "fetching" /\ call[p].request # None)
      /\ (stashes' # stashes) =>
           (\E p \in Procs : pc[p] = "saving" /\ pc'[p] = "done")
      /\ \A p \in Procs :
           (pc'[p] = "rejected" /\ call'[p].error \in PreSaveFailures) =>
             stashes' = call'[p].before ]_vars

\* a request fails while an earlier login's stash is on disk
C1_Witness ==
  \E p \in Procs :
    /\ call[p].kind = "createLogin"
    /\ pc[p] = "rejected"
    /\ call[p].error = "server"
    /\ DOMAIN call[p].before # {}
    /\ stashes = call[p].before

IsBytes32(v) == Len(v) = 3 /\ v[1] = "bytes" /\ v[2] = 32

\* C2: when the server accepts, createLogin returns a login whose username is
\* fixUsername(input) and whose loginKey is a 32-byte value, and the stash
\* persisted under fixUsername(input) has the loginId of the returned login.
C2_ReturnedLogin ==
  \A p \in Procs :
    (call[p].kind = "createLogin" /\ pc[p] = "done") =>
      LET name == fixUsername(call[p].input).val
          login == call[p].result
      IN /\ "username" \in DOMAIN login
         /\ login.username = Name(name)
         /\ "loginKey" \in DOMAIN login
         /\ IsBytes32(login.loginKey)
         /\ name \in DOMAIN stashes
         /\ stashes[name].loginId = login.loginId

\* a login was returned for a username that normalisation changed
C2_Witness ==
  \E p \in Procs :
    /\ call[p].kind = "createLogin"
    /\ pc[p] = "done"
    /\ call[p].input # fixUsername(call[p].input).val
    /\ call[p].opts.password # None

\* the time a call's `now` stands for
CallNow(c) == IF c.accountNow # None THEN c.accountNow[1] ELSE Date(c.startedAt)

\* C3 as stated: username and userId are attached to both the login and the
\* stash fragment, and lastLogin is stamped with now.
C3_Original ==
  \A p \in Procs :
    (call[p].kind = "createLogin" /\ pc[p] = "done") =>
      LET login == call[p].result
          stash == stashes[call[p].username]
      IN /\ {"username", "userId"} \subseteq DOMAIN login
         /\ {"username", "userId"} \subseteq DOMAIN stash
         /\ login.userId = login.loginId
         /\ stash.userId = stash.loginId
         /\ stash.lastLogin = CallNow(call[p])

\* C3 amended: username is attached to both fragments, userId (= loginId) to
\* the login fragment only, and the stash's lastLogin is stamped with now
\* (accountOpts.now, or the time of the call when absent); all of it is in
\* place when saveStash is called and in what is persisted and returned.
C3_Attached ==
  \A p \in Procs :
    (call[p].kind = "createLogin" /\ pc[p] \in {"saving", "done"}) =>
      LET c == call[p]
          login == IF pc[p] = "done" THEN c.result ELSE c.kit.login
          stash == IF pc[p] = "done" THEN stashes[c.username] ELSE c.kit.stash
      IN /\ {"username", "userId"} \subseteq DOMAIN login
         /\ login.username = Name(fixUsername(c.input).val)
         /\ login.userId = login.loginId
         /\ "username" \in DOMAIN stash
         /\ stash.username = login.username
         /\ "userId" \notin DOMAIN stash
         /\ "lastLogin" \in DOMAIN stash
         /\ stash.lastLogin = CallNow(c)

\* a login created without accountOpts.now, returned after time has passed
C3_Witness ==
  \E p \in Procs :
    /\ call[p].kind = "createLogin"
    /\ pc[p] = "done"
    /\ call[p].accountNow = None
    /\ clock > call[p].startedAt

ClearSecretFields == {"loginKey", "loginAuth", "passwordAuth", "pin", "recovery2Key"}

C11_OneRequest ==
  [][ \A p \in Procs :
        LET c == call'[p]
        IN /\ (c.kind = "createLogin" /\ pc'[p] \in {"fetching", "saving", "done"}) =>
                /\ Len(c.sent) = 1
                /\ c.sent[1].method = "POST"
                /\ c.sent[1].path = "/v2/login/create"
                /\ c.sent[1].data = c.kit.server
                /\ {"loginId", "loginAuth", "loginAuthBox"} \subseteq DOMAIN c.sent[1].data
           /\ (pc'[p] = "rejected" /\ c.kind = "createLogin") =>
                Len(c.sent) = (IF c.error \in {"server", "save"} THEN 1 ELSE 0)
           /\ (pc'[p] \in {"idle", "awaitKit"}) => c.sent = <<>>
           /\ (stashes' # stashes /\ pc[p] = "saving" /\ pc'[p] = "done") =>
                Len(call[p].sent) = 1 ]_vars

\* one call was stopped by a kit builder, the next one has sent its request
C11_Witness ==
  \E p \in Procs :
    /\ pc[p] = "fetching"
    /\ Len(call[p].sent) = 1
    /\ call[p].opts.password # None
    /\ nCalls = 2

(***************************************************************************)
(* Properties of usernameAvailable (Spec)                                  *)
(***************************************************************************)
\* a probe outcome that is a UsernameError
IsUsernameError(o) == o[1] = "thrown" /\ o[2] /\ o[3] = "UsernameError"

\* C12: usernameAvailable probes the server with a POST to /v2/login that
\* carries the base64 of the hashed userId; it resolves to true exactly when
\* the probe fails with a UsernameError, and to false whenever the probe
\* succeeds, whatever the reply.
C12_Available ==
  \A p \in Procs :
    (call[p].kind = "usernameAvailable" /\ call[p].probe # None) =>
      LET c == call[p]
          o == c.probe[1]
      IN /\ c.sent = <<[method |-> "POST", path |-> "/v2/login",
                        data |-> [userId |->
                          Base64Stringify(Scrypt(fixUsername(c.input).val))]]>>
         /\ c.ret = Some(Bool(TRUE)) <=> IsUsernameError(o)
         /\ o[1] = "reply" => (pc[p] = "done" /\ c.ret = Some(Bool(FALSE)))
         /\ pc[p] = "done" <=> c.ret # None

\* the probe for a name that normalisation changed failed with UsernameError
C12_Witness ==
  \E p \in Procs :
    /\ call[p].kind = "usernameAvailable"
    /\ pc[p] = "done"
    /\ call[p].probe # None
    /\ IsUsernameError(call[p].probe[1])
    /\ call[p].input # call[p].username

\* C13: usernameAvailable swallows no failure but the UsernameError of the
\* probe.  Any other value the probe rejects with, and the error of a failed
\* username hash, is what the call rejects with, the same value, and the call
\* then has no boolean result.
C13_Rethrown ==
  \A p \in Procs :
    call[p].kind = "usernameAvailable" =>
      LET c == call[p]
      IN /\ (c.probe # None /\ c.probe[1][1] = "thrown" /\ ~IsUsernameError(c.probe[1])) =>
              (pc[p] = "rejected" /\ c.thrown = c.probe /\ c.ret = None)
         /\ (c.userIdKey # <<>> /\ userIdCache[c.userIdKey].state = "rejected") =>
              /\ pc[p] \in {"awaitHash", "rejected"}
              /\ c.ret = None /\ c.sent = <<>>
              /\ pc[p] = "rejected" => c.thrown = Some(ScryptFailure)
         /\ pc[p] = "rejected" => (c.thrown # None /\ c.ret = None)

\* a probe was rejected with a NetworkError, which the call rejected with
C13_Witness ==
  \E p \in Procs :
    /\ call[p].kind = "usernameAvailable"
    /\ pc[p] = "rejected"
    /\ call[p].thrown = Some(Thrown(TRUE, "NetworkError", ""))

\* the username hash failed under a call of usernameAvailable
C13_WitnessHash ==
  \E p \in Procs :
    /\ call[p].kind = "usernameAvailable"
    /\ pc[p] = "rejected"
    /\ call[p].error = "hash"

\* the operations a step can belong to
StepKinds == {call[p].kind : p \in Procs} \cup {call'[p].kind : p \in Procs}

\* C16: the username-hash cache is append-only.  Under any sequence of
\* hashUsername, usernameAvailable and createLogin calls an entry, once
\* there, is never removed or replaced: it stays the same computation, which
\* can only go from pending to settled; entries are added only for the
\* normalised name of the call being made.  The cache is all that calls
\* share: hashUsername and usernameAvailable change nothing else outside
\* their own call, and only createLogin touches the stashes.
C16_AppendOnly ==
  [][ /\ \A name \in DOMAIN userIdCache :
           /\ name \in DOMAIN userIdCache'
           /\ userIdCache'[name] # userIdCache[name] =>
                /\ userIdCache[name].state = "pending"
                /\ userIdCache'[name].state \in {"resolved", "rejected"}
      /\ \A name \in DOMAIN userIdCache' \ DOMAIN userIdCache :
           /\ userIdCache'[name] = [state |-> "pending", value |-> None]
           /\ \E p \in Procs :
                /\ pc[p] = "idle" /\ pc'[p] # "idle"
                /\ name = fixUsername(call'[p].input).val
      /\ (stashes' # stashes \/ rnd' # rnd) => StepKinds \subseteq {"none", "createLogin"}
    ]_vars

\* a name hashed by an earlier call that drew no random value is used to
\* create a login
C16_Witness ==
  \E p \in Procs :
    /\ call[p].kind = "createLogin"
    /\ pc[p] = "fetching"
    /\ call[p].rndAt = 1
    /\ nCalls = 2
    /\ userIdCache[call[p].userIdKey].state = "resolved"

(***************************************************************************)
(* Properties of getStash (Spec)                                           *)
(***************************************************************************)
\* C17: getStash(username) returns the cached stash stored under
\* fixUsername(username) when there is one, and otherwise a default stash
\* with username = fixUsername(username), appId = '', loginId = '' and
\* pendingVouchers = [].
C17_GetStash ==
  \A p \in Procs :
    (call[p].kind = "getStash" /\ fixUsername(call[p].input).ok) =>
      LET name == fixUsername(call[p].input).val
      IN /\ pc[p] = "done"
         /\ stashes = call[p].before
         /\ IF name \in DOMAIN stashes
            THEN /\ call[p].ret = Some(stashes[name])
                 /\ stashes[name].username = Name(name)
            ELSE call[p].ret = Some([username |-> Name(name), appId |-> Str(""),
                                     loginId |-> Str(""),
                                     pendingVouchers |-> List(<<>>)])

\* getStash("B") returned the stash that createLogin saved under "b"
C17_Witness ==
  \E p \in Procs :
    /\ call[p].kind = "getStash"
    /\ pc[p] = "done"
    /\ call[p].input = <<66>>
    /\ <<98>> \in DOMAIN stashes
    /\ "loginAuthBox" \in DOMAIN call[p].ret[1]

\* the default stash was returned for a name that has no stash
C17_WitnessDefault ==
  \E p \in Procs :
    /\ call[p].kind = "getStash"
    /\ pc[p] = "done"
    /\ DOMAIN stashes # {}
    /\ call[p].ret[1].loginId = Str("")

\* C18: getStash never fails: for every username and every state of the
\* stash cache it returns a LoginStash and raises no error.
C18_GetStashNeverFails ==
  \A p \in Procs :
    call[p].kind = "getStash" =>
      /\ pc[p] = "done"
      /\ call[p].thrown = None
      /\ call[p].ret # None

(***************************************************************************)
(* SpecCache: two callers that hash usernames at the same time, in a       *)
(* process that may have hashed another name before                        *)
(***************************************************************************)
\* the cache entries a name can have
CacheEntries(name) ==
  {[state |-> "pending", value |-> None],
   [state |-> "resolved", value |-> Some(Scrypt(name))],
   [state |-> "rejected", value |-> Some(ScryptFailure)]}

\* what earlier calls for the name "a" can have left in the cache
PriorCaches == {EmptyObj} \cup {[n \in {<<97>>} |-> e] : e \in CacheEntries(<<97>>)}

InitCache ==
  /\ stashes = EmptyObj
  /\ userIdCache \in PriorCaches
  /\ scrypts = [n \in DOMAIN userIdCache |-> 1]
  /\ pc = [p \in Procs |-> "idle"]
  /\ call = [p \in Procs |-> NoCall]
  /\ rnd = 1
  /\ clock = 0
  /\ nCalls = 0
  /\ kin = NoKin
  /\ mKits = [keys |-> dummyKit, password |-> dummyKit, pin2 |-> dummyKit]
  /\ mKit = NoKit
  /\ ExtraInit

NextCache ==
  \/ \E p \in Procs, u \in HashUsernames : callHashUsername(p, u)
  \/ \E p \in Procs, u \in Usernames : usernameAvailable(p, u)
  \/ \E name \in DOMAIN userIdCache : scryptResolve(name)
  \/ \E name \in DOMAIN userIdCache : scryptReject(name)
  \/ \E p \in Procs : hashResolved(p)
  \/ \E p \in Procs : hashRejected(p)
  \/ \E p \in Procs, r \in ServerReplies : probeOk(p, r)
  \/ \E p \in Procs, e \in ServerErrors : probeFail(p, e)
  \/ \E p \in Procs : settle(p)

SpecCache == InitCache /\ [][NextCache]_vars

(***************************************************************************)
(* Properties of the username-hash cache (SpecCache)                       *)
(***************************************************************************)
\* the calls that go through hashUsername and have a normalised name
Hashing(p) == call[p].kind \in {"hashUsername", "usernameAvailable"} /\ call[p].userIdKey # <<>>

\* what a call of hashUsername has settled with
Outcome(p) == <<pc[p], call[p].ret, call[p].thrown>>

\* C14: hashUsername depends only on the normalised username.  A call that
\* resolves does so with the stretching of fixUsername(username), and two
\* calls whose usernames normalise to the same name ("B" and "b") settle
\* with the identical result, whichever came first and whatever else is in
\* the cache.
C14_SameNameSameHash ==
  \A p \in Procs :
    call[p].kind = "hashUsername" =>
      /\ pc[p] = "done" => call[p].ret = Some(Scrypt(fixUsername(call[p].input).val))
      /\ \A q \in Procs :
           ( /\ call[q].kind = "hashUsername"
             /\ pc[p] \in {"done", "rejected"} /\ pc[q] \in {"done", "rejected"}
             /\ fixUsername(call[p].input) = fixUsername(call[q].input) ) =>
             Outcome(p) = Outcome(q)

\* "B" and "b" have both been hashed, with another name in the cache
C14_Witness ==
  /\ call[1].kind = "hashUsername" /\ call[2].kind = "hashUsername"
  /\ pc[1] = "done" /\ pc[2] = "done"
  /\ call[1].input = <<98>> /\ call[2].input = <<66>>
  /\ <<97>> \in DOMAIN userIdCache

\* C15: the stretching function is invoked at most once for each normalised
\* username, exactly once for each name in the cache; calls for a name share
\* the cache entry of that name, so that a call made while the computation is
\* pending settles with the same result as the call that started it.
C15_OneStretching ==
  /\ DOMAIN scrypts = DOMAIN userIdCache
  /\ \A name \in DOMAIN scrypts : scrypts[name] = 1
  /\ \A p \in Procs : Hashing(p) =>
       /\ call[p].userIdKey = fixUsername(call[p].input).val
       /\ call[p].userIdKey \in DOMAIN userIdCache
       /\ (call[p].kind = "hashUsername" /\ pc[p] = "done") =>
            call[p].ret = userIdCache[call[p].userIdKey].value
       /\ (pc[p] = "rejected" /\ call[p].error = "hash") =>
            call[p].thrown = userIdCache[call[p].userIdKey].value

\* two calls for one name wait on the computation the first of them started
C15_Witness ==
  /\ pc[1] = "awaitHash" /\ pc[2] = "awaitHash"
  /\ call[1].userIdKey = call[2].userIdKey
  /\ call[1].input # call[2].input
  /\ userIdCache[call[1].userIdKey].state = "pending"
  /\ scrypts[call[1].userIdKey] = 1

(***************************************************************************)
(* SpecTree: getStashById on cached stash trees.  A forest of n stashes is *)
(* given by the parent of each (0 for a root) and by its login id; the     *)
(* k-th stash without a parent is the root stash of the k-th username.     *)
(***************************************************************************)
TreeId(k) == Base64Stringify(Random(32, k))

\* the stashes whose parent is i, in the order of the children array
KidsOf(i, n, parent) == SelectSeq([j \in 1..n |-> j], LAMBDA j : parent[j] = i)

RECURSIVE StashTree(_, _, _, _)
\* the stash i with its children, a stash without children has no such field
StashTree(i, n, parent, idOf) ==
  LET kids == KidsOf(i, n, parent)
      base == [loginId |-> TreeId(idOf[i]), appId |-> Str("")]
  IN IF kids = <<>> THEN base
     ELSE Spread(base, [f \in {"children"} |->
            [k \in DOMAIN kids |-> StashTree(kids[k], n, parent, idOf)]])

\* state.login.stashes: each root stash under its username
StashForest(n, parent, idOf) ==
  LET roots == KidsOf(0, n, parent)
  IN [name \in {<<96 + k>> : k \in DOMAIN roots} |->
        Spread(StashTree(roots[name[1] - 96], n, parent, idOf),
               [username |-> Name(name)])]

InitTree ==
  /\ \E n \in 1..MaxNodes :
       \E parent \in [1..n -> 0..(n - 1)], idOf \in Permutations(1..n) :
         /\ \A i \in 1..n : parent[i] < i
         /\ stashes = StashForest(n, parent, idOf)
  /\ userIdCache = EmptyObj
  /\ scrypts = EmptyObj
  /\ pc = [p \in Procs |-> "idle"]
  /\ call = [p \in Procs |-> NoCall]
  /\ rnd = 1
  /\ clock = 0
  /\ nCalls = 0
  /\ kin = NoKin
  /\ mKits = [keys |-> dummyKit, password |-> dummyKit, pin2 |-> dummyKit]
  /\ mKit = NoKit
  /\ ExtraInit

NextTree ==
  \/ \E k \in 1..(MaxNodes + 1) : callGetStashById(1, TreeId(k))
  \/ \E u \in HashUsernames : callGetStash(1, u)
  \/ settle(1)

SpecTree == InitTree /\ [][NextTree]_vars

(***************************************************************************)
(* Properties of getStashById (SpecTree)                                   *)
(***************************************************************************)
RECURSIVE NodesOf(_)
\* the stashes of a tree
NodesOf(tree) ==
  {tree} \cup (IF "children" \in DOMAIN tree
               THEN UNION {NodesOf(tree.children[k]) : k \in DOMAIN tree.children}
               ELSE {})

\* the cached stashes with the given login id, each with its root
LeavesWith(loginId) ==
  UNION {{[stashTree |-> stashes[name], stash |-> node] :
            node \in {m \in NodesOf(stashes[name]) : m.loginId = loginId}} :
         name \in DOMAIN stashes}

\* C19: when some cached stash tree has a node with the requested loginId,
\* getStashById returns a pair (stash, stashTree) where stash has that
\* loginId and is a node of stashTree, reached through children, and
\* stashTree is one of the cached root stashes; nothing is changed.
C19_FoundById ==
  (call[1].kind = "getStashById" /\ LeavesWith(call[1].input) # {}) =>
    /\ pc[1] = "done"
    /\ call[1].ret # None
    /\ LET leaf == call[1].ret[1]
       IN /\ leaf.stash.loginId = call[1].input
          /\ leaf.stashTree \in {stashes[name] : name \in DOMAIN stashes}
          /\ leaf.stash \in NodesOf(leaf.stashTree)
          /\ leaf \in LeavesWith(call[1].input)
    /\ stashes = call[1].before

\* the second of two children of a root is found, with the root
C19_Witness ==
  /\ call[1].kind = "getStashById"
  /\ pc[1] = "done"
  /\ "children" \in DOMAIN call[1].ret[1].stashTree
  /\ Len(call[1].ret[1].stashTree.children) = 2
  /\ call[1].ret[1].stash = call[1].ret[1].stashTree.children[2]
  /\ Cardinality(DOMAIN stashes) = 2

\* C20: getStashById fails with a NotFoundError when no node of any cached
\* stash tree has the requested loginId.
C20_NotFoundError ==
  (call[1].kind = "getStashById" /\ LeavesWith(call[1].input) = {}) =>
    /\ pc[1] = "rejected"
    /\ call[1].thrown # None
    /\ call[1].thrown[1][3] = "NotFoundError"

\* a step in which a lookup is made
IsLookup(p) == pc[p] = "idle" /\ call'[p].kind \in {"getStash", "getStashById"}

\* C21: stash lookups are read-only.  A call of getStash or getStashById,
\* with the tree search it runs, leaves the cached stashes and every node of
\* every stash tree as they were, whether it returns or throws.
C21_LookupsReadOnly ==
  [][ \A p \in Procs : IsLookup(p) =>
        /\ stashes' = stashes
        /\ DOMAIN stashes' = DOMAIN stashes
        /\ \A name \in DOMAIN stashes : NodesOf(stashes'[name]) = NodesOf(stashes[name])
        /\ pc'[p] \in {"done", "rejected"}
        /\ call'[p].before = stashes' ]_vars

\* the second of two lookups found nothing, in a forest that has children
C21_Witness ==
  /\ nCalls = 2
  /\ pc[1] = "rejected"
  /\ call[1].kind = "getStashById"
  /\ \E name \in DOMAIN stashes : "children" \in DOMAIN stashes[name]

\* getStash returned the default stash, for a name without a stash
C21_WitnessDefault ==
  /\ call[1].kind = "getStash"
  /\ pc[1] = "done"
  /\ call[1].ret[1].loginId = Str("")
  /\ DOMAIN stashes # {}

(***************************************************************************)
(* SpecName: fixUsername applied to every username of up to MaxLen         *)
(* characters, and again to its own result                                 *)
(***************************************************************************)
\* "A", "a", space, tab, e-acute and the Kelvin sign
NameChars == {65, 97, 32, 9, 233, 8490}

NameInputs == UNION {[1..n -> NameChars] : n \in 0..MaxLen}

InitName ==
  /\ stashes = EmptyObj
  /\ userIdCache = EmptyObj
  /\ scrypts = EmptyObj
  /\ pc = [p \in Procs |-> "idle"]
  /\ call = [p \in Procs |-> NoCall]
  /\ rnd = 1
  /\ clock = 0
  /\ nCalls = 0
  /\ kin = NoKin
  /\ mKits = [keys |-> dummyKit, password |-> dummyKit, pin2 |-> dummyKit]
  /\ mKit = NoKit
  /\ norm \in [input : NameInputs, outs : {<<>>}]
  /\ otp = None
  /\ acct = None
  /\ vouch = None
  /\ accounts = EmptyObj
  /\ CoreInit

\* fixUsername(username), and fixUsername of what it returned
applyFixUsername ==
  /\ Len(norm.outs) < 2
  /\ norm.outs # <<>> => norm.outs[Len(norm.outs)].ok
  /\ LET arg == IF norm.outs = <<>> THEN norm.input ELSE norm.outs[Len(norm.outs)].val
     IN norm' = [norm EXCEPT !.outs = Append(norm.outs, fixUsername(arg))]
  /\ UNCHANGED <<loginVars, kitVars, otp, acct, vouch, accounts, coreVars>>

SpecName == InitName /\ [][applyFixUsername]_vars

(***************************************************************************)
(* Properties of fixUsername (SpecName)                                    *)
(***************************************************************************)
\* lower case, single spaces only between other characters
IsTidy(s) ==
  /\ \A i \in DOMAIN s : ~(s[i] >= 65 /\ s[i] <= 90) /\ (IsWs(s[i]) => s[i] = 32)
  /\ \A i \in DOMAIN s : (s[i] = 32) => (i > 1 /\ i < Len(s) /\ s[i + 1] # 32)

\* C22: username normalisation is idempotent.  For every input x that
\* fixUsername accepts, fixUsername(x) is lower-case, has no whitespace but
\* single spaces and none at either end, and fixUsername accepts it and
\* returns it unchanged.
C22_Idempotent ==
  /\ (Len(norm.outs) >= 1 /\ norm.outs[1].ok) => IsTidy(norm.outs[1].val)
  /\ Len(norm.outs) = 2 => (norm.outs[2].ok /\ norm.outs[2].val = norm.outs[1].val)

\* "A", two whitespace characters in a row, "a": normalised twice
C22_Witness ==
  /\ Len(norm.outs) = 2
  /\ Len(norm.input) = 3
  /\ norm.input[1] = 65 /\ norm.input[2] = 9 /\ norm.input[3] = 32
  /\ norm.outs[2].val = <<97>>

IsPrintable(c) == c >= 32 /\ c <= 126

\* C23: fixUsername rejects, with an InvalidUsernameError, every input that
\* contains a byte outside the printable ASCII range 0x20-0x7E, and never
\* returns a string that contains such a byte.
C23_RejectsNonPrintable ==
  Len(norm.outs) >= 1 =>
    /\ (\E i \in DOMAIN norm.input : ~IsPrintable(norm.input[i])) =>
         (~norm.outs[1].ok /\ BadCharacters[3] = "InvalidUsernameError")
    /\ norm.outs[1].ok => \A i \in DOMAIN norm.outs[1].val : IsPrintable(norm.outs[1].val[i])

(***************************************************************************)
(* SpecVoucher: approveVoucher and rejectVoucher on a login with pending   *)
(* vouchers.  vouch holds the login tree, its stash and the call.          *)
(***************************************************************************)
VoucherIds == {"v1", "v2", "v3"}

\* EdgePendingVoucher, as far as it is told apart
Voucher(id) == [voucherId |-> id, activates |-> Date(1)]

\* lists of distinct pending vouchers
PendingLists ==
  {s \in UNION {[1..n -> VoucherIds] : n \in 0..MaxVouchers} :
     \A i, j \in DOMAIN s : i # j => s[i] # s[j]}

VoucherList(ids) == List([i \in DOMAIN ids |-> Voucher(ids[i])])

\* pendingVouchers without the voucher
WithoutVoucher(pending, voucherId) ==
  List(SelectSeq(pending[2], LAMBDA v : v.voucherId # voucherId))

\* mutant: the stash fragment keeps the voucher
makeVoucherKit_stashKeeps(login, stash, verdict, voucherId) ==
  [serverPath |-> "/v2/login/vouchers",
   server |-> [f \in {verdict} |-> List(<<voucherId>>)],
   stash |-> [pendingVouchers |-> stash.pendingVouchers],
   login |-> [pendingVouchers |-> WithoutVoucher(login.pendingVouchers, voucherId)]]

\* the kit of a verdict: the server fragment lists the id under
\* approvedVouchers or rejectedVouchers, the stash and login fragments have
\* pendingVouchers without it
makeVoucherKit(login, stash, verdict, voucherId) ==
  [serverPath |-> "/v2/login/vouchers",
   server |-> [f \in {verdict} |-> List(<<voucherId>>)],
   stash |-> [pendingVouchers |-> WithoutVoucher(stash.pendingVouchers, voucherId)],
   login |-> [pendingVouchers |-> WithoutVoucher(login.pendingVouchers, voucherId)]]

VouchOf(pending) ==
  [login |-> [loginId |-> TreeId(1), loginKey |-> Random(32, 0), pendingVouchers |-> pending],
   stash |-> [loginId |-> TreeId(1), username |-> Name(<<97>>), pendingVouchers |-> pending],
   at |-> "idle", verdict |-> "", voucherId |-> "", kit |-> NoKit, sent |-> <<>>,
   before |-> pending]

InitVoucher ==
  /\ stashes = EmptyObj
  /\ userIdCache = EmptyObj
  /\ scrypts = EmptyObj
  /\ pc = [p \in Procs |-> "idle"]
  /\ call = [p \in Procs |-> NoCall]
  /\ rnd = 1
  /\ clock = 0
  /\ nCalls = 0
  /\ kin = NoKin
  /\ mKits = [keys |-> dummyKit, password |-> dummyKit, pin2 |-> dummyKit]
  /\ mKit = NoKit
  /\ norm = NoNorm
  /\ otp = None
  /\ acct = None
  /\ \E ids \in PendingLists : vouch = Some(VouchOf(VoucherList(ids)))
  /\ accounts = EmptyObj
  /\ CoreInit

\* the verdict is turned into a kit and the kit's request is sent
changeVoucher(verdict, voucherId) ==
  /\ vouch[1].at = "idle"
  /\ LET v == vouch[1]
         kit == makeVoucherKit(v.login, v.stash, verdict, voucherId)
     IN vouch' = Some([v EXCEPT !.at = "fetching", !.verdict = verdict,
                                !.voucherId = voucherId, !.kit = kit,
                                !.before = v.login.pendingVouchers,
                                !.sent = <<[method |-> "POST", path |-> kit.serverPath,
                                            data |-> kit.server]>>])
  /\ UNCHANGED <<loginVars, kitVars, norm, otp, acct, accounts, coreVars>>

approveVoucher(voucherId) == changeVoucher("approvedVouchers", voucherId)

rejectVoucher(voucherId) == changeVoucher("rejectedVouchers", voucherId)

\* the server accepts: the stash and login fragments are applied
voucherFetchOk ==
  /\ vouch[1].at = "fetching"
  /\ LET v == vouch[1]
     IN vouch' = Some([v EXCEPT !.at = "done",
                                !.login = Spread(v.login, v.kit.login),
                                !.stash = Spread(v.stash, v.kit.stash)])
  /\ UNCHANGED <<loginVars, kitVars, norm, otp, acct, accounts, coreVars>>

\* the server refuses: nothing is applied
voucherFetchFail ==
  /\ vouch[1].at = "fetching"
  /\ vouch' = Some([vouch[1] EXCEPT !.at = "rejected"])
  /\ UNCHANGED <<loginVars, kitVars, norm, otp, acct, accounts, coreVars>>

\* the caller drops the settled promise
voucherSettle ==
  /\ vouch[1].at \in {"done", "rejected"}
  /\ vouch' = Some([vouch[1] EXCEPT !.at = "idle", !.verdict = "", !.voucherId = "",
                                    !.kit = NoKit, !.sent = <<>>,
                                    !.before = vouch[1].login.pendingVouchers])
  /\ UNCHANGED <<loginVars, kitVars, norm, otp, acct, accounts, coreVars>>

NextVoucher ==
  \/ \E id \in VoucherIds : approveVoucher(id)
  \/ \E id \in VoucherIds : rejectVoucher(id)
  \/ voucherFetchOk
  \/ voucherFetchFail
  \/ voucherSettle

SpecVoucher == InitVoucher /\ [][NextVoucher]_vars

(***************************************************************************)
(* Properties of the vouchers (SpecVoucher)                                *)
(***************************************************************************)
IdsOf(pending) == {pending[2][i].voucherId : i \in DOMAIN pending[2]}

\* C24: after approveVoucher(voucherId) or rejectVoucher(voucherId) has
\* succeeded on a login whose pendingVouchers had that voucher, neither the
\* login tree nor its stash has it any more, every other pending voucher is
\* still there, in the same order, and the request listed the id as
\* approved (respectively rejected), and under nothing else.
C24_VoucherRemoved ==
  LET v == vouch[1]
  IN (v.at = "done" /\ v.voucherId \in IdsOf(v.before)) =>
       /\ v.voucherId \notin IdsOf(v.login.pendingVouchers)
       /\ v.voucherId \notin IdsOf(v.stash.pendingVouchers)
       /\ v.login.pendingVouchers =
            List(SelectSeq(v.before[2], LAMBDA x : x.voucherId # v.voucherId))
       /\ v.stash.pendingVouchers = v.login.pendingVouchers
       /\ Len(v.sent) = 1
       /\ DOMAIN v.sent[1].data = {v.verdict}
       /\ v.sent[1].data[v.verdict] = List(<<v.voucherId>>)
       /\ v.verdict \in {"approvedVouchers", "rejectedVouchers"}

\* the first of two pending vouchers was rejected, the second is still there
C24_Witness ==
  LET v == vouch[1]
  IN /\ v.at = "done"
     /\ v.verdict = "rejectedVouchers"
     /\ Len(v.before[2]) = 2
     /\ v.voucherId = v.before[2][1].voucherId
     /\ Len(v.login.pendingVouchers[2]) = 1

(***************************************************************************)
(* SpecAccount: an Account object, from its construction over the user's   *)
(* storage to logout and after.  acct holds the storage, the object (once  *)
(* constructed) and what has been called on it.                            *)
(***************************************************************************)
AccountBoxes == {"passwordAuthBox", "rootKeyBox", "syncKeyBox"}

\* the data key the boxes of the storage were made with, and another one
DataKeys == {Random(32, 1), Random(32, 2)}

\* what each box holds
BoxContent(box) == <<"secret", box>>

\* the user's storage with the given boxes in it
UserStorage(boxes) == [b \in boxes |-> Encrypt(BoxContent(b), Random(32, 1))]

InitAccount ==
  /\ stashes = EmptyObj
  /\ userIdCache = EmptyObj
  /\ scrypts = EmptyObj
  /\ pc = [p \in Procs |-> "idle"]
  /\ call = [p \in Procs |-> NoCall]
  /\ rnd = 1
  /\ clock = 0
  /\ nCalls = 0
  /\ kin = NoKin
  /\ mKits = [keys |-> dummyKit, password |-> dummyKit, pin2 |-> dummyKit]
  /\ mKit = NoKit
  /\ norm = NoNorm
  /\ otp = None
  /\ \E boxes \in SUBSET AccountBoxes, name \in {<<97>>, <<98>>} :
       acct = Some([storage |-> UserStorage(boxes), username |-> name,
                    obj |-> None, error |-> "", loggedOut |-> FALSE,
                    nOps |-> 0, last |-> ""])
  /\ vouch = None
  /\ accounts = EmptyObj
  /\ CoreInit

acctFrame == <<loginVars, kitVars, norm, otp, vouch, accounts, coreVars>>

\* new Account(ctx, username, dataKey): throws when a box is missing or does
\* not open, else holds the data key and the three secrets
Account(dataKey) ==
  /\ acct[1].obj = None
  /\ acct[1].error = ""
  /\ LET a == acct[1]
         missing == AccountBoxes \ DOMAIN a.storage
         opens == \A b \in AccountBoxes : Decrypt(a.storage[b], dataKey) # None
     IN IF "passwordAuthBox" \in missing
        THEN acct' = Some([a EXCEPT !.error = "Missing passwordAuthBox"])
        ELSE IF "rootKeyBox" \in missing
        THEN acct' = Some([a EXCEPT !.error = "Missing rootKeyBox"])
        ELSE IF "syncKeyBox" \in missing
        THEN acct' = Some([a EXCEPT !.error = "Missing syncKeyBox"])
        ELSE IF ~opens
        THEN acct' = Some([a EXCEPT !.error = "decrypt"])
        ELSE acct' = Some([a EXCEPT !.obj = Some(
               [username |-> a.username,
                dataKey |-> Some(dataKey),
                passwordAuth |-> Decrypt(a.storage.passwordAuthBox, dataKey),
                syncKey |-> Decrypt(a.storage.syncKeyBox, dataKey),
                rootKey |-> Decrypt(a.storage.rootKeyBox, dataKey)])])
  /\ UNCHANGED acctFrame

\* a method is called on the object
Called(a, method) == [a EXCEPT !.nOps = a.nOps + 1, !.last = method]

\* mutant: the root key is kept
logout_keepsRootKey ==
  /\ acct[1].obj # None
  /\ acct[1].nOps < MaxOps
  /\ LET a == Called(acct[1], "logout")
     IN acct' = Some([a EXCEPT !.loggedOut = TRUE,
                               !.obj = Some([a.obj[1] EXCEPT !.dataKey = None,
                                                             !.passwordAuth = None,
                                                             !.syncKey = None])])
  /\ UNCHANGED acctFrame

\* Account.prototype.logout
logout ==
  /\ acct[1].obj # None
  /\ acct[1].nOps < MaxOps
  /\ LET a == Called(acct[1], "logout")
     IN acct' = Some([a EXCEPT !.loggedOut = TRUE,
                               !.obj = Some([a.obj[1] EXCEPT !.dataKey = None,
                                                             !.passwordAuth = None,
                                                             !.syncKey = None,
                                                             !.rootKey = None])])
  /\ UNCHANGED acctFrame

\* Account.prototype.passwordOk: a check, nothing is written
passwordOk ==
  /\ acct[1].obj # None
  /\ acct[1].nOps < MaxOps
  /\ acct' = Some(Called(acct[1], "passwordOk"))
  /\ UNCHANGED acctFrame

\* Account.prototype.passwordSetup: with the data key, the new passwordAuth
\* is boxed into the storage and kept; without it nothing can be boxed
passwordSetup(password) ==
  /\ acct[1].obj # None
  /\ acct[1].nOps < MaxOps
  /\ LET a == Called(acct[1], "passwordSetup")
         o == a.obj[1]
         passwordAuth == <<"passwordAuth", o.username, password>>
     IN IF o.dataKey = None
        THEN acct' = Some(a)
        ELSE acct' = Some([a EXCEPT
               !.storage = Spread(a.storage,
                  [b \in {"passwordAuthBox"} |-> Encrypt(passwordAuth, o.dataKey[1])]),
               !.obj = Some([o EXCEPT !.passwordAuth = Some(passwordAuth)])])
  /\ UNCHANGED acctFrame

\* Account.prototype.pinSetup: the PIN goes into the storage, under the data
\* key; the keys of the object are not written
pinSetup(pin) ==
  /\ acct[1].obj # None
  /\ acct[1].nOps < MaxOps
  /\ LET a == Called(acct[1], "pinSetup")
         o == a.obj[1]
     IN IF o.dataKey = None
        THEN acct' = Some(a)
        ELSE acct' = Some([a EXCEPT !.storage = Spread(a.storage,
               [b \in {"pinBox"} |-> Encrypt(Str(pin), o.dataKey[1])])])
  /\ UNCHANGED acctFrame

NextAccount ==
  \/ \E k \in DataKeys : Account(k)
  \/ logout
  \/ passwordOk
  \/ \E pw \in {"hunter2", "hunter3"} : passwordSetup(pw)
  \/ \E pin \in {"1234"} : pinSetup(pin)

SpecAccount == InitAccount /\ [][NextAccount]_vars

(***************************************************************************)
(* Properties of the account object (SpecAccount)                          *)
(***************************************************************************)
KeyFields == {"dataKey", "passwordAuth", "syncKey", "rootKey"}

Malformed == <<"num", 5>>

OtpStringFields == {"login_id", "otp_reset_auth", "reason", "voucher_id"}
OtpDateFields == {"otp_timeout_date", "voucher_activates"}
OtpFields == OtpStringFields \cup OtpDateFields \cup {"voucher_auth"}

\* the values a field of the reply can have
OtpValues(f) ==
  IF f = "reason" THEN {Str("ip"), Str("otp"), Str("other"), Malformed}
  ELSE IF f \in OtpStringFields THEN {Str(f), Malformed}
  ELSE IF f \in OtpDateFields THEN {Date(7), Malformed}
  ELSE {Base64Stringify(Random(32, 9)), Malformed}

\* a field is absent or has one of its values
OtpChoices(f) == {None} \cup {Some(v) : v \in OtpValues(f)}

OtpReplies ==
  {[isObject |-> FALSE, fields |-> EmptyObj]} \cup
  {[isObject |-> TRUE,
    fields |-> [f \in {g \in OtpFields : r[g] # None} |-> r[f][1]]] :
     r \in [login_id : OtpChoices("login_id"),
            otp_reset_auth : OtpChoices("otp_reset_auth"),
            otp_timeout_date : OtpChoices("otp_timeout_date"),
            reason : OtpChoices("reason"),
            voucher_activates : OtpChoices("voucher_activates"),
            voucher_auth : OtpChoices("voucher_auth"),
            voucher_id : OtpChoices("voucher_id")]}

\* the cleaner of one field: the clean value, or none when the type is wrong
asOtpField(f, v) ==
  IF f \in OtpStringFields THEN (IF v[1] = "str" THEN Some(v) ELSE None)
  ELSE IF f \in OtpDateFields THEN (IF v[1] = "date" THEN Some(v) ELSE None)
  ELSE (IF v[1] = "b64" THEN Some(Base64Parse(v)) ELSE None)

\* asOtpErrorPayload: throws (ok = FALSE) unless the reply is an object whose
\* fields, where present, have the type of OtpErrorPayload
asOtpErrorPayload(raw) ==
  IF raw.isObject /\ \A f \in DOMAIN raw.fields : asOtpField(f, raw.fields[f]) # None
  THEN [ok |-> TRUE, val |-> [f \in DOMAIN raw.fields |-> asOtpField(f, raw.fields[f])[1]]]
  ELSE [ok |-> FALSE, val |-> EmptyObj]

\* clean[f], undefined when the field is absent
OtpGet(clean, f) == IF f \in DOMAIN clean THEN Some(clean[f]) ELSE None

\* mutant: the reason of the reply is taken whatever it is
OtpReason_any(clean) ==
  IF "reason" \in DOMAIN clean THEN clean.reason[2] ELSE "otp"

\* this.reason = 'otp'; if (clean.reason === 'ip') this.reason = 'ip'
OtpReason(clean) ==
  IF "reason" \in DOMAIN clean /\ clean.reason = Str("ip") THEN "ip" ELSE "otp"

\* new OtpError(resultsJson): the fields are set inside a try whose catch
\* does nothing
OtpError(resultsJson) ==
  LET base == [name |-> "OtpError", type |-> "OtpError", reason |-> "otp"]
      cleaned == asOtpErrorPayload(resultsJson)
      clean == cleaned.val
  IN IF ~cleaned.ok THEN base
     ELSE Spread(Spread(Spread(Spread(Spread(Spread(Spread(base,
            Field("loginId", OtpGet(clean, "login_id"))),
            Field("resetToken", OtpGet(clean, "otp_reset_auth"))),
            [reason |-> OtpReason(clean)]),
            Field("resetDate", OtpGet(clean, "otp_timeout_date"))),
            Field("voucherActivates", OtpGet(clean, "voucher_activates"))),
            Field("voucherAuth",
                  IF "voucher_auth" \in DOMAIN clean
                  THEN Some(Base64Stringify(clean.voucher_auth)) ELSE None)),
            Field("voucherId", OtpGet(clean, "voucher_id")))

InitOtp ==
  /\ stashes = EmptyObj
  /\ userIdCache = EmptyObj
  /\ scrypts = EmptyObj
  /\ pc = [p \in Procs |-> "idle"]
  /\ call = [p \in Procs |-> NoCall]
  /\ rnd = 1
  /\ clock = 0
  /\ nCalls = 0
  /\ kin = NoKin
  /\ mKits = [keys |-> dummyKit, password |-> dummyKit, pin2 |-> dummyKit]
  /\ mKit = NoKit
  /\ norm = NoNorm
  /\ \E reply \in OtpReplies : otp = Some([reply |-> reply, error |-> None])
  /\ acct = None
  /\ vouch = None
  /\ accounts = EmptyObj
  /\ CoreInit

\* the reply is turned into an OtpError
makeOtpError ==
  /\ otp[1].error = None
  /\ otp' = Some([otp[1] EXCEPT !.error = Some(OtpError(otp[1].reply))])
  /\ UNCHANGED <<loginVars, kitVars, norm, acct, vouch, accounts, coreVars>>

SpecOtp == InitOtp /\ [][makeOtpError]_vars

(***************************************************************************)
(* Properties of OtpError (SpecOtp)                                        *)
(***************************************************************************)
\* the field of the error that goes with a field of the reply
OtpErrorField(f) ==
  CASE f = "login_id" -> "loginId"
    [] f = "otp_reset_auth" -> "resetToken"
    [] f = "otp_timeout_date" -> "resetDate"
    [] f = "voucher_activates" -> "voucherActivates"
    [] f = "voucher_auth" -> "voucherAuth"
    [] f = "voucher_id" -> "voucherId"

\* the reply is an object and each field it has is of its type
WellFormed(reply) ==
  /\ reply.isObject
  /\ \A f \in DOMAIN reply.fields : reply.fields[f] # Malformed

\* C26 as stated: reason is 'ip' exactly when the reply is well-formed and
\* its reason is 'ip', 'otp' otherwise, and resetToken, resetDate, loginId
\* and the voucher fields are set exactly when the reply has the field.
C26_Original ==
  otp[1].error # None =>
    LET e == otp[1].error[1]
        reply == otp[1].reply
    IN /\ e.reason \in {"otp", "ip"}
       /\ e.reason = "ip" <=>
            (WellFormed(reply) /\ "reason" \in DOMAIN reply.fields
               /\ reply.fields.reason = Str("ip"))
       /\ \A f \in OtpFields \ {"reason"} :
            OtpErrorField(f) \in DOMAIN e <=> f \in DOMAIN reply.fields

\* C26 amended: every OtpError has reason 'otp' or 'ip'; reason is 'ip'
\* exactly when the reply is well-formed and its reason is 'ip'; resetToken,
\* resetDate, loginId and the voucher fields are set, to the value of the
\* reply, exactly when the reply is well-formed and has the field: a reply
\* with one field of the wrong type sets none of them.
C26_OtpFields ==
  otp[1].error # None =>
    LET e == otp[1].error[1]
        reply == otp[1].reply
    IN /\ e.name = "OtpError"
       /\ e.reason \in {"otp", "ip"}
       /\ e.reason = "ip" <=>
            (WellFormed(reply) /\ "reason" \in DOMAIN reply.fields
               /\ reply.fields.reason = Str("ip"))
       /\ \A f \in OtpFields \ {"reason"} :
            /\ OtpErrorField(f) \in DOMAIN e <=>
                 (WellFormed(reply) /\ f \in DOMAIN reply.fields)
            /\ OtpErrorField(f) \in DOMAIN e => e[OtpErrorField(f)] = reply.fields[f]

\* a well-formed reply with reason 'ip', a reset token and a voucher
C26_Witness ==
  /\ otp[1].error # None
  /\ otp[1].error[1].reason = "ip"
  /\ {"resetToken", "voucherId", "voucherAuth"} \subseteq DOMAIN otp[1].error[1]
  /\ "resetDate" \notin DOMAIN otp[1].error[1]

(***************************************************************************)
(* SpecLocal: deleteLocalAccount with stashes on disk and accounts logged  *)
(* in.  Stashes and accounts are under normalised usernames, and an        *)
(* account that is logged in has its stash.                                *)
(***************************************************************************)
\* "a", "b" and "c"
LocalNames == {<<97>>, <<98>>, <<99>>}

\* the stash of a root login as createLogin saves it
LocalStash(name) ==
  [username |-> Name(name), appId |-> Str(""), loginId |-> Base64Stringify(Scrypt(name)),
   lastLogin |-> Date(0)]

InitLocal ==
  /\ \E names \in SUBSET LocalNames :
       /\ stashes = [n \in names |-> LocalStash(n)]
       /\ \E k \in 0..MaxAccounts : \E users \in [1..k -> names] :
            accounts = [accountId \in 1..k |-> [username |-> Name(users[accountId])]]
  /\ userIdCache = EmptyObj
  /\ scrypts = EmptyObj
  /\ pc = [p \in Procs |-> "idle"]
  /\ call = [p \in Procs |-> NoCall]
  /\ rnd = 1
  /\ clock = 0
  /\ nCalls = 0
  /\ kin = NoKin
  /\ mKits = [keys |-> dummyKit, password |-> dummyKit, pin2 |-> dummyKit]
  /\ mKit = NoKit
  /\ norm = NoNorm
  /\ otp = None
  /\ acct = None
  /\ vouch = None
  /\ CoreInit

NextLocal ==
  \/ \E u \in HashUsernames \cup {<<99>>} : deleteLocalAccount(1, u)
  \/ removeOk(1)
  \/ settle(1)

SpecLocal == InitLocal /\ [][NextLocal]_vars

(***************************************************************************)
(* Properties of deleteLocalAccount (SpecLocal)                            *)
(***************************************************************************)
\* the normalised usernames of the accounts that are logged in
LoggedIn == {accounts[accountId].username[2] : accountId \in DOMAIN accounts}

\* C27: deleteLocalAccount never removes the stash of a user who is logged
\* in.  If an open account has username fixUsername(input) the call fails
\* with 'Cannot remove logged-in user' and the stashes are as they were;
\* otherwise the stash under fixUsername(input) is removed and no other.
C27_DeleteLocal ==
  /\ LoggedIn \subseteq DOMAIN stashes
  /\ (call[1].kind = "deleteLocalAccount" /\ fixUsername(call[1].input).ok) =>
       LET name == fixUsername(call[1].input).val
           c == call[1]
       IN IF name \in LoggedIn
          THEN /\ pc[1] = "rejected"
               /\ c.thrown = Some(Thrown(TRUE, "Error", "Cannot remove logged-in user"))
               /\ stashes = c.before
          ELSE /\ pc[1] \in {"removing", "done"}
               /\ pc[1] = "removing" => stashes = c.before
               /\ pc[1] = "done" =>
                    /\ DOMAIN stashes = DOMAIN c.before \ {name}
                    /\ \A n \in DOMAIN stashes : stashes[n] = c.before[n]

\* "B" was refused because "b" is logged in, after the stash of another
\* user had been removed
C27_Witness ==
  /\ call[1].kind = "deleteLocalAccount"
  /\ pc[1] = "rejected"
  /\ call[1].input = <<66>>
  /\ call[1].error = "loggedIn"
  /\ nCalls = 2
  /\ Cardinality(DOMAIN stashes) = 1

\* the stash saved under "b" was removed by deleteLocalAccount("B")
C27_WitnessRemoved ==
  /\ call[1].kind = "deleteLocalAccount"
  /\ pc[1] = "done"
  /\ call[1].input = <<66>>
  /\ <<98>> \in DOMAIN call[1].before
  /\ <<98>> \notin DOMAIN stashes

\* C31: createLogin returns a LoginTree only if both the server request and
\* the stash save succeeded.  A call that holds a result has completed, its
\* request was sent and its stash is the one stored; a call whose save failed
\* after the server accepted is rejected with the save's error, holds no
\* result, and has left the stashes as they were at the call.
C31_NoLoginWithoutSave ==
  \A p \in Procs :
    call[p].kind = "createLogin" =>
      LET c == call[p]
      IN /\ c.result # EmptyObj =>
              /\ pc[p] = "done"
              /\ c.sent # None
              /\ c.username \in DOMAIN stashes
              /\ stashes[c.username] = c.kit.stash
         /\ pc[p] = "done" => c.result = c.kit.login
         /\ (pc[p] = "rejected" /\ c.error = "save") =>
              /\ c.result = EmptyObj
              /\ c.sent # None
              /\ stashes = c.before

\* the server accepted the creation, the save failed, and there is no stash
\* for the username
C31_Witness ==
  \E p \in Procs :
    /\ call[p].kind = "createLogin"
    /\ pc[p] = "rejected"
    /\ call[p].error = "save"
    /\ call[p].sent # None
    /\ call[p].username \notin DOMAIN stashes

\* the fields the LoginTree type requires
LoginTreeRequired == {"appId", "lastLogin", "loginId", "loginKey", "pendingVouchers", "children", "keyInfos"}

\* C30: the object createLogin returns is a complete LoginTree: appId,
\* lastLogin, loginId, loginKey, pendingVouchers (empty), children (empty) and
\* keyInfos are all defined on it, and the stash it saves has pendingVouchers
\* defined.
C30_CompleteLoginTree ==
  \A p \in Procs :
    (call[p].kind = "createLogin" /\ pc[p] = "done") =>
      LET login == call[p].result
      IN /\ LoginTreeRequired \subseteq DOMAIN login
         /\ login.pendingVouchers = List(<<>>)
         /\ login.children = List(<<>>)
         /\ "pendingVouchers" \in DOMAIN call[p].kit.stash

(***************************************************************************)
(* SpecMsg: fetchLoginMessages on a device with cached stashes.  The keys  *)
(* of the stashes are in the order they were added; a stash can lack its   *)
(* loginId, and two stashes can have the same one.                         *)
(***************************************************************************)
\* "a" and "b"
MsgNames == {<<97>>, <<98>>}

\* the login ids of "a" and "b", and one that belongs to no stash
MsgIds == {Base64Stringify(Scrypt(<<97>>)), Base64Stringify(Scrypt(<<98>>)),
           Base64Stringify(Random(32, 9))}

\* the login ids a cached stash can have
MsgStashIds == {None} \cup {Some(Base64Stringify(Scrypt(n))) : n \in MsgNames}

MsgStash(name, id) == Spread([username |-> Name(name)], Field("loginId", id))

\* an EdgeLoginMessage
LoginMessage(loginId, pending) ==
  [loginId |-> loginId, otpResetPending |-> Bool(pending),
   pendingVouchers |-> List(<<>>), recovery2Corrupt |-> Bool(FALSE)]

MsgMessages == {LoginMessage(id, b) : id \in MsgIds, b \in BOOLEAN}

\* what the server can reply: a list of messages, or something else
MsgReplies ==
  {Malformed} \cup
  {List(m) : m \in UNION {[1..k -> MsgMessages] : k \in 0..MaxMsgs}}

\* the orders the keys of an object can be in
KeyOrders(S) ==
  {o \in UNION {[1..k -> S] : k \in {Cardinality(S)}} : \A i, j \in DOMAIN o : i # j => o[i] # o[j]}

RECURSIVE buildLoginMap(_, _, _)
\* for (const username of Object.keys(stashes)): loginMap[loginId] = username
\* wherever the stash has a loginId; a later username replaces an earlier one
buildLoginMap(all, keys, loginMap) ==
  IF keys = <<>> THEN loginMap
  ELSE LET username == Head(keys)
           next == IF "loginId" \in DOMAIN all[username]
                   THEN Spread(loginMap, [id \in {all[username].loginId} |-> username])
                   ELSE loginMap
       IN buildLoginMap(all, Tail(keys), next)

RECURSIVE loginIdsOf(_, _, _)
\* Object.keys(loginMap): the login ids in the order they were first set
loginIdsOf(all, keys, seen) ==
  IF keys = <<>> THEN <<>>
  ELSE LET st == all[Head(keys)]
           fresh == "loginId" \in DOMAIN st /\ st.loginId \notin seen
       IN (IF fresh THEN <<st.loginId>> ELSE <<>>) \o
          loginIdsOf(all, Tail(keys), IF fresh THEN seen \cup {st.loginId} ELSE seen)

\* { loginIds: Object.keys(loginMap) }, POSTed to /v2/messages
messagesRequest(all, keys) ==
  [method |-> "POST", path |-> "/v2/messages",
   data |-> [loginIds |-> List(loginIdsOf(all, keys, {}))]]

\* asMessagesPayload: the list of messages, or a throw when the reply is not
\* a list
asMessagesPayload(reply) ==
  IF reply[1] = "list" THEN [ok |-> TRUE, val |-> reply[2]]
  ELSE [ok |-> FALSE, val |-> <<>>]

\* what the cleaner throws
CleanerFailure == Thrown(TRUE, "TypeError", "Expected an array")

\* mutant: every message is filed, under its own login id when no stash has it
collectMessages_keepsAll(loginMap, messages, out) ==
  [u \in {IF m.loginId \in DOMAIN loginMap THEN loginMap[m.loginId] ELSE m.loginId :
            m \in {messages[i] : i \in DOMAIN messages}} |->
     LET ks == {i \in DOMAIN messages :
                  u = (IF messages[i].loginId \in DOMAIN loginMap
                       THEN loginMap[messages[i].loginId] ELSE messages[i].loginId)}
     IN messages[CHOOSE i \in ks : \A j \in ks : j <= i]]

RECURSIVE collectMessages(_, _, _)
\* for (const message of ...): out[username] = message when loginMap has the
\* message's loginId
collectMessages(loginMap, messages, out) ==
  IF messages = <<>> THEN out
  ELSE LET message == Head(messages)
           next == IF message.loginId \in DOMAIN loginMap
                   THEN Spread(out, [u \in {loginMap[message.loginId]} |-> message])
                   ELSE out
       IN collectMessages(loginMap, Tail(messages), next)

NoMsgs ==
  [pc |-> "idle", keys |-> <<>>, loginMap |-> EmptyObj, request |-> None, reply |-> None,
   out |-> EmptyObj, thrown |-> None, before |-> EmptyObj]

InitMsg ==
  /\ \E names \in SUBSET MsgNames : \E ids \in [names -> MsgStashIds], keys \in KeyOrders(names) :
       /\ stashes = [n \in names |-> MsgStash(n, ids[n])]
       /\ msgs = Some([NoMsgs EXCEPT !.keys = keys])
  /\ userIdCache = EmptyObj
  /\ scrypts = EmptyObj
  /\ pc = [p \in Procs |-> "idle"]
  /\ call = [p \in Procs |-> NoCall]
  /\ rnd = 1
  /\ clock = 0
  /\ nCalls = 0
  /\ kin = NoKin
  /\ mKits = [keys |-> dummyKit, password |-> dummyKit, pin2 |-> dummyKit]
  /\ mKit = NoKit
  /\ norm = NoNorm
  /\ otp = None
  /\ acct = None
  /\ vouch = None
  /\ accounts = EmptyObj
  /\ quotes = None
  /\ sorted = None
  /\ reaction = None
  /\ pluginsState = None

msgFrame == <<userIdCache, scrypts, pc, call, rnd, clock, nCalls, kitVars, norm, otp, acct, vouch, accounts, quotes, sorted, reaction, pluginsState>>

\* fetchLoginMessages(ai) up to the request
fetchLoginMessages ==
  /\ msgs[1].pc = "idle"
  /\ LET m == msgs[1]
     IN msgs' = Some([m EXCEPT !.pc = "fetching",
                               !.loginMap = buildLoginMap(stashes, m.keys, EmptyObj),
                               !.request = Some(messagesRequest(stashes, m.keys)),
                               !.before = stashes])
  /\ UNCHANGED <<stashes, msgFrame>>

\* the server replies: the messages are filed by username
messagesReply(reply) ==
  /\ msgs[1].pc = "fetching"
  /\ LET m == msgs[1]
         clean == asMessagesPayload(reply)
     IN msgs' = Some(IF clean.ok
                     THEN [m EXCEPT !.pc = "done", !.reply = Some(reply),
                                    !.out = collectMessages(m.loginMap, clean.val, EmptyObj)]
                     ELSE [m EXCEPT !.pc = "rejected", !.reply = Some(reply),
                                    !.thrown = Some(CleanerFailure)])
  /\ UNCHANGED <<stashes, msgFrame>>

\* loginFetch rejects
messagesFail(error) ==
  /\ msgs[1].pc = "fetching"
  /\ msgs' = Some([msgs[1] EXCEPT !.pc = "rejected", !.thrown = Some(error)])
  /\ UNCHANGED <<stashes, msgFrame>>

\* while the request is in flight a local account is deleted
stashRemoved(name) ==
  /\ msgs[1].pc = "fetching"
  /\ name \in DOMAIN stashes
  /\ stashes' = removeStash(stashes, name)
  /\ msgs' = Some([msgs[1] EXCEPT !.keys = SelectSeq(msgs[1].keys, LAMBDA k : k # name)])
  /\ UNCHANGED msgFrame

NextMsg ==
  \/ fetchLoginMessages
  \/ \E reply \in MsgReplies : messagesReply(reply)
  \/ \E e \in ServerErrors : messagesFail(e)
  \/ \E name \in MsgNames : stashRemoved(name)

SpecMsg == InitMsg /\ [][NextMsg]_vars

(***************************************************************************)
(* Properties of fetchLoginMessages (SpecMsg)                              *)
(***************************************************************************)
\* the messages of a reply
MessagesOf(reply) == {reply[2][i] : i \in DOMAIN reply[2]}

\* C33: fetchLoginMessages returns a map in which every key is a username
\* with a cached stash (cached when the call was made) and the message under
\* a username is a message of the reply whose loginId is the loginId of that
\* username's stash; a message whose loginId matches no cached stash is
\* dropped; and no step of the call changes the cached stashes.
C33_MessagesByUsername ==
  [][ /\ (fetchLoginMessages \/ (\E r \in MsgReplies : messagesReply(r))
            \/ (\E e \in ServerErrors : messagesFail(e))) => stashes' = stashes
      /\ msgs'[1].pc = "done" =>
           LET m == msgs'[1]
           IN /\ \A u \in DOMAIN m.out :
                   /\ u \in DOMAIN m.before
                   /\ "loginId" \in DOMAIN m.before[u]
                   /\ m.out[u] \in MessagesOf(m.reply[1])
                   /\ m.out[u].loginId = m.before[u].loginId
              /\ \A msg \in MessagesOf(m.reply[1]) :
                   (\A u \in DOMAIN m.before :
                      "loginId" \in DOMAIN m.before[u] => m.before[u].loginId # msg.loginId)
                     => \A u \in DOMAIN m.out : m.out[u] # msg ]_vars

\* a reply with a message for the stash of "a" and one for no stash at all
C33_Witness ==
  /\ msgs[1].pc = "done"
  /\ DOMAIN msgs[1].before = MsgNames
  /\ DOMAIN msgs[1].out = {<<97>>}
  /\ \E msg \in MessagesOf(msgs[1].reply[1]) : msg.loginId = Base64Stringify(Random(32, 9))

(***************************************************************************)
(* SpecSwap: pickBestQuote on the quotes the swap plugins gave, one quote  *)
(* per plugin at most, in the order the plugins answered                   *)
(***************************************************************************)
SwapPluginIds == {<<"plugin", k>> : k \in 1..MaxPlugins}

\* a quote without isEstimate counts as an estimate
SwapEstimates == {None, Some(FALSE)}

\* native amounts, as decimal strings
SwapAmounts == {10, 25}

\* an EdgeSwapQuote
SwapQuote(pluginId, isEstimate, toNativeAmount) ==
  Spread([pluginId |-> pluginId, fromNativeAmount |-> 10, toNativeAmount |-> toNativeAmount],
         Field("isEstimate", isEstimate))

\* the quotes of a set of plugins, in every order
SwapQuoteLists ==
  UNION {{[i \in 1..k |-> SwapQuote(ids[i], est[i], amt[i])] :
            ids \in {f \in [1..k -> SwapPluginIds] : \A i, j \in 1..k : i # j => f[i] # f[j]},
            est \in [1..k -> SwapEstimates], amt \in [1..k -> SwapAmounts]} :
         k \in 1..MaxPlugins}

\* promoCodes: the plugins that have a promo code
SwapPromoCodes == {[id \in ids |-> "promo"] : ids \in SUBSET SwapPluginIds}

\* preferPluginId: none, or a plugin
SwapPrefers == {None} \cup {Some(id) : id \in SwapPluginIds}

\* biggystring div, to its default precision: the integer quotient
div(x, y) == x \div y

\* biggystring gt
gt(x, y) == x > y

\* const { isEstimate = true } = quote
isEstimateOf(quote) == IF "isEstimate" \in DOMAIN quote THEN quote.isEstimate ELSE TRUE

\* the callback of the reduce
pickBetter(a, b, preferPluginId, promoCodes) ==
  LET aHasPromo == a.pluginId \in DOMAIN promoCodes
      bHasPromo == b.pluginId \in DOMAIN promoCodes
      aIsEstimate == isEstimateOf(a)
      bIsEstimate == isEstimateOf(b)
      aRate == div(a.toNativeAmount, a.fromNativeAmount)
      bRate == div(b.toNativeAmount, b.fromNativeAmount)
  IN IF Some(a.pluginId) = preferPluginId THEN a
     ELSE IF Some(b.pluginId) = preferPluginId THEN b
     ELSE IF aHasPromo /\ ~bHasPromo THEN b
     ELSE IF ~aHasPromo /\ bHasPromo THEN a
     ELSE IF aIsEstimate /\ ~bIsEstimate THEN b
     ELSE IF ~aIsEstimate /\ bIsEstimate THEN a
     ELSE IF gt(bRate, aRate) THEN b ELSE a

RECURSIVE reduceQuotes(_, _, _, _)
\* quotes.reduce((a, b) => ...) from the accumulator a over the rest
reduceQuotes(a, rest, preferPluginId, promoCodes) ==
  IF rest = <<>> THEN a
  ELSE reduceQuotes(pickBetter(a, Head(rest), preferPluginId, promoCodes), Tail(rest),
                    preferPluginId, promoCodes)

\* pickBestQuote(quotes, preferPluginId, promoCodes), quotes not empty
pickBestQuote(list, preferPluginId, promoCodes) ==
  reduceQuotes(Head(list), Tail(list), preferPluginId, promoCodes)

InitSwap ==
  /\ \E list \in SwapQuoteLists, prefer \in SwapPrefers, promoCodes \in SwapPromoCodes :
       quotes = Some([quotes |-> list, preferPluginId |-> prefer,
                      promoCodes |-> promoCodes, bestQuote |-> None])
  /\ stashes = EmptyObj
  /\ userIdCache = EmptyObj
  /\ scrypts = EmptyObj
  /\ pc = [p \in Procs |-> "idle"]
  /\ call = [p \in Procs |-> NoCall]
  /\ rnd = 1
  /\ clock = 0
  /\ nCalls = 0
  /\ kin = NoKin
  /\ mKits = [keys |-> dummyKit, password |-> dummyKit, pin2 |-> dummyKit]
  /\ mKit = NoKit
  /\ norm = NoNorm
  /\ otp = None
  /\ acct = None
  /\ vouch = None
  /\ accounts = EmptyObj
  /\ msgs = None
  /\ sorted = None
  /\ reaction = None
  /\ pluginsState = None

\* const bestQuote = pickBestQuote(quotes, preferPluginId, promoCodes)
applyPickBestQuote ==
  /\ quotes[1].bestQuote = None
  /\ quotes' = Some([quotes[1] EXCEPT !.bestQuote =
                       Some(pickBestQuote(quotes[1].quotes, quotes[1].preferPluginId,
                                          quotes[1].promoCodes))])
  /\ UNCHANGED <<loginVars, kitVars, norm, otp, acct, vouch, accounts, msgs, sorted, reaction, pluginsState>>

SpecSwap == InitSwap /\ [][applyPickBestQuote]_vars

(***************************************************************************)
(* Properties of pickBestQuote (SpecSwap)                                  *)
(***************************************************************************)
\* the plugins that gave a quote
QuotedPlugins(q) == {q.quotes[i].pluginId : i \in DOMAIN q.quotes}

\* C34: pickBestQuote prioritizes providers with active promo codes.  The
\* quote chosen is one of the quotes; a quote from the preferred plugin, when
\* there is one, is the one chosen; and when there is none, a quote whose
\* plugin has a promo code is chosen over every quote whose plugin has none,
\* whatever the estimate status and the rates are.
C34_PromoFirst ==
  quotes[1].bestQuote # None =>
    LET q == quotes[1]
        best == q.bestQuote[1]
        preferred == q.preferPluginId # None /\ q.preferPluginId[1] \in QuotedPlugins(q)
    IN /\ \E i \in DOMAIN q.quotes : q.quotes[i] = best
       /\ preferred => best.pluginId = q.preferPluginId[1]
       /\ (~preferred /\ QuotedPlugins(q) \cap DOMAIN q.promoCodes # {}) =>
            best.pluginId \in DOMAIN q.promoCodes

\* a quote from the preferred plugin, when there is one, is the one chosen
C34_PreferredWins ==
  quotes[1].bestQuote # None =>
    LET q == quotes[1]
    IN (q.preferPluginId # None /\ q.preferPluginId[1] \in QuotedPlugins(q)) =>
         q.bestQuote[1].pluginId = q.preferPluginId[1]

(***************************************************************************)
(* SpecTxs: the sortedTransactions reducer of a currency wallet.  An       *)
(* object is the sequence of its keys, in the order they were set, and the *)
(* map of their values.                                                    *)
(***************************************************************************)
TxidHashNames == {"h1", "h2"}

\* dates are numbers
TxDates == 0..MaxDate

\* the txidHashes of a payload: one <<txidHash, date>> for each key, in order
TxPayloads ==
  UNION {{p \in [1..k -> TxidHashNames \X TxDates] :
            \A i, j \in 1..k : i # j => p[i][1] # p[j][1]} : k \in 0..Cardinality(TxidHashNames)}

\* !value
IsFalsy(map, key) == key \notin DOMAIN map \/ map[key] = 0

RECURSIVE mergeHashes(_, _)
\* for (const newTxidHash in newHashes): the date is stored when there is
\* none yet (or a falsy one) or when it is earlier
mergeHashes(obj, newHashes) ==
  IF newHashes = <<>> THEN obj
  ELSE LET newTxidHash == Head(newHashes)[1]
           newTime == Head(newHashes)[2]
           takes == IsFalsy(obj.map, newTxidHash) \/ newTime < obj.map[newTxidHash]
           next == IF ~takes THEN obj
                   ELSE [keys |-> IF newTxidHash \in DOMAIN obj.map THEN obj.keys
                                  ELSE Append(obj.keys, newTxidHash),
                         map |-> Spread(obj.map, [h \in {newTxidHash} |-> newTime])]
       IN mergeHashes(next, Tail(newHashes))

\* the comparator of the sort: later dates first
compareTxs(map, txidHash1, txidHash2) ==
  IF map[txidHash1] > map[txidHash2] THEN -1
  ELSE IF map[txidHash1] < map[txidHash2] THEN 1
  ELSE 0

RECURSIVE insertTx(_, _, _)
\* x goes behind the elements that do not compare after it
insertTx(map, list, x) ==
  IF list = <<>> THEN <<x>>
  ELSE IF compareTxs(map, Head(list), x) <= 0 THEN <<Head(list)>> \o insertTx(map, Tail(list), x)
  ELSE <<x>> \o list

RECURSIVE sortKeys(_, _)
\* Object.keys(txidHashes).sort(...): a stable sort
sortKeys(map, keys) ==
  IF keys = <<>> THEN <<>>
  ELSE insertTx(map, sortKeys(map, SubSeq(keys, 1, Len(keys) - 1)), keys[Len(keys)])

\* sortTxs(txidHashes, newHashes)
sortTxs(txidHashes, newHashes) ==
  LET merged == mergeHashes(txidHashes, newHashes)
  IN [txidHashes |-> merged, sortedList |-> sortKeys(merged.map, merged.keys)]

\* the actions the reducer is sent
TxActions ==
  {[type |-> "CURRENCY_ENGINE_CHANGED_TXS", payload |-> p] : p \in TxPayloads} \cup
  {[type |-> "CURRENCY_WALLET_FILE_NAMES_LOADED", payload |-> p] : p \in TxPayloads} \cup
  {[type |-> "CURRENCY_ENGINE_STOPPED", payload |-> <<>>]}

\* the reducer: the payload of CURRENCY_WALLET_FILE_NAMES_LOADED holds
\* { creationDate, fileName } for each txidHash, of which the creationDate
\* is taken
sortedTransactions(state, action) ==
  IF action.type \in {"CURRENCY_ENGINE_CHANGED_TXS", "CURRENCY_WALLET_FILE_NAMES_LOADED"}
  THEN sortTxs(state.txidHashes, action.payload)
  ELSE state

\* state = { txidHashes: {}, sortedList: [] }
InitTxs ==
  /\ sorted = Some([state |-> [txidHashes |-> [keys |-> <<>>, map |-> EmptyObj], sortedList |-> <<>>],
                    reported |-> {}, n |-> 0])
  /\ stashes = EmptyObj
  /\ userIdCache = EmptyObj
  /\ scrypts = EmptyObj
  /\ pc = [p \in Procs |-> "idle"]
  /\ call = [p \in Procs |-> NoCall]
  /\ rnd = 1
  /\ clock = 0
  /\ nCalls = 0
  /\ kin = NoKin
  /\ mKits = [keys |-> dummyKit, password |-> dummyKit, pin2 |-> dummyKit]
  /\ mKit = NoKit
  /\ norm = NoNorm
  /\ otp = None
  /\ acct = None
  /\ vouch = None
  /\ accounts = EmptyObj
  /\ msgs = None
  /\ quotes = None
  /\ reaction = None
  /\ pluginsState = None

\* an action is dispatched; what it reports is remembered
dispatchTx(action) ==
  /\ sorted[1].n < MaxActions
  /\ sorted' = Some([state |-> sortedTransactions(sorted[1].state, action),
                     reported |-> sorted[1].reported \cup
                                    {action.payload[i] : i \in DOMAIN action.payload},
                     n |-> sorted[1].n + 1])
  /\ UNCHANGED <<loginVars, kitVars, norm, otp, acct, vouch, accounts, msgs, quotes, reaction, pluginsState>>

NextTxs == \E action \in TxActions : dispatchTx(action)

SpecTxs == InitTxs /\ [][NextTxs]_vars

(***************************************************************************)
(* Properties of sortedTransactions (SpecTxs)                              *)
(***************************************************************************)
\* the dates reported for a txidHash
ReportedFor(h) == {r[2] : r \in {x \in sorted[1].reported : x[1] = h}}

\* sortedList has exactly the keys of txidHashes, each once, latest first
SortedListOk ==
  LET st == sorted[1].state
      list == st.sortedList
  IN /\ {list[i] : i \in DOMAIN list} = DOMAIN st.txidHashes.map
     /\ Len(list) = Cardinality(DOMAIN st.txidHashes.map)
     /\ \A i, j \in DOMAIN list : i < j => st.txidHashes.map[list[i]] >= st.txidHashes.map[list[j]]

\* C35: after any sequence of CURRENCY_ENGINE_CHANGED_TXS and
\* CURRENCY_WALLET_FILE_NAMES_LOADED actions, sortedList contains exactly the
\* keys of txidHashes, each once, ordered by non-increasing date, and the
\* date kept for each txid hash is the smallest date ever reported for it.
C35_SortedSmallest ==
  /\ SortedListOk
  /\ LET map == sorted[1].state.txidHashes.map
     IN /\ DOMAIN map = {r[1] : r \in sorted[1].reported}
        /\ \A h \in DOMAIN map :
             /\ map[h] \in ReportedFor(h)
             /\ \A d \in ReportedFor(h) : map[h] <= d

\* the part of C35 about the list alone
C35_ListSorted == SortedListOk

(***************************************************************************)
(* SpecReaction: the reaction of a currency wallet that reports changed    *)
(* and new transactions.  A transaction and its metadata file are known by *)
(* their versions; the reaction is called, with the values it was called   *)
(* with the time before, whenever the store changes.                       *)
(***************************************************************************)
WalletTxids == {"t1", "t2"}

\* the transactions of the list that differ from the old ones, or whose file
\* does
DiffOf(r) ==
  {t \in DOMAIN r.txs :
     \/ t \notin DOMAIN r.oldTxs \/ r.txs[t] # r.oldTxs[t]
     \/ (t \in DOMAIN r.files) # (t \in DOMAIN r.oldFiles)
     \/ (t \in DOMAIN r.files /\ t \in DOMAIN r.oldFiles /\ r.files[t] # r.oldFiles[t])}

\* let inhibit = false, and nothing loaded yet
NoReaction ==
  [inhibit |-> FALSE, pc |-> "idle", txs |-> EmptyObj, files |-> EmptyObj,
   oldTxs |-> EmptyObj, oldFiles |-> EmptyObj, changes |-> {}, created |-> {},
   lastChanged |-> {}, lastCreated |-> {}, n |-> 0]

InitReaction ==
  /\ reaction = Some(NoReaction)
  /\ stashes = EmptyObj
  /\ userIdCache = EmptyObj
  /\ scrypts = EmptyObj
  /\ pc = [p \in Procs |-> "idle"]
  /\ call = [p \in Procs |-> NoCall]
  /\ rnd = 1
  /\ clock = 0
  /\ nCalls = 0
  /\ kin = NoKin
  /\ mKits = [keys |-> dummyKit, password |-> dummyKit, pin2 |-> dummyKit]
  /\ mKit = NoKit
  /\ norm = NoNorm
  /\ otp = None
  /\ acct = None
  /\ vouch = None
  /\ accounts = EmptyObj
  /\ msgs = None
  /\ quotes = None
  /\ sorted = None
  /\ pluginsState = None

reactionFrame == <<loginVars, kitVars, norm, otp, acct, vouch, accounts, msgs, quotes, sorted, pluginsState>>

\* the callback of the reaction, called with the store as r has it: nothing
\* when inhibit is set; else inhibit is set, the list is diffed, metadata is
\* set up for each transaction without a file (a dispatch that calls the
\* reaction again, which returns at once), and the callbacks are due
transactionsReaction(r) ==
  IF r.inhibit THEN [r EXCEPT !.oldTxs = r.txs, !.oldFiles = r.files]
  ELSE LET diff == DiffOf(r)
           created == {t \in diff : t \notin DOMAIN r.files}
           files == Spread(r.files, [t \in created |-> 1])
       IN [r EXCEPT !.inhibit = TRUE, !.pc = "callbacks",
                    !.changes = diff \ created, !.created = created,
                    !.files = files, !.oldTxs = r.txs, !.oldFiles = files]

\* the engine reports a transaction, new or changed
engineTx(txid) ==
  /\ reaction[1].n < MaxChanges
  /\ LET r == reaction[1]
         version == IF txid \in DOMAIN r.txs THEN r.txs[txid] + 1 ELSE 1
     IN /\ version <= MaxVersion
        /\ reaction' = Some(transactionsReaction(
             [r EXCEPT !.txs = Spread(r.txs, [t \in {txid} |-> version]), !.n = r.n + 1]))
  /\ UNCHANGED reactionFrame

\* the metadata file of a transaction changes
fileChanged(txid) ==
  /\ reaction[1].n < MaxChanges
  /\ LET r == reaction[1]
     IN /\ txid \in DOMAIN r.files
        /\ r.files[txid] < MaxVersion
        /\ reaction' = Some(transactionsReaction(
             [r EXCEPT !.files = Spread(r.files, [t \in {txid} |-> r.files[txid] + 1]),
                       !.n = r.n + 1]))
  /\ UNCHANGED reactionFrame

\* onTransactionsChanged and onNewTransactions return: inhibit = false
callbacksReturn ==
  /\ reaction[1].pc = "callbacks"
  /\ reaction' = Some([reaction[1] EXCEPT !.pc = "idle", !.inhibit = FALSE,
                                          !.lastChanged = reaction[1].changes,
                                          !.lastCreated = reaction[1].created,
                                          !.changes = {}, !.created = {}])
  /\ UNCHANGED reactionFrame

\* one of the callbacks throws: the pass ends where it is
callbackThrows ==
  /\ reaction[1].pc = "callbacks"
  /\ reaction[1].changes \cup reaction[1].created # {}
  /\ reaction' = Some([reaction[1] EXCEPT !.pc = "idle", !.changes = {}, !.created = {}])
  /\ UNCHANGED reactionFrame

NextReaction ==
  \/ \E txid \in WalletTxids : engineTx(txid)
  \/ \E txid \in WalletTxids : fileChanged(txid)
  \/ callbacksReturn
  \/ callbackThrows

SpecReaction == InitReaction /\ [][NextReaction]_vars

(***************************************************************************)
(* Properties of the transaction reaction (SpecReaction)                   *)
(***************************************************************************)
\* C36: the transaction-change reaction is not re-entrant and never stays
\* blocked.  inhibit is true exactly while a pass is running, a change made
\* during a pass starts no second pass, and a change to the transactions
\* made while no pass is running starts a pass that has transactions to
\* report to onTransactionsChanged or onNewTransactions.
C36_NeverBlocked ==
  [][ LET r == reaction[1]
          q == reaction'[1]
      IN /\ q.inhibit = (q.pc = "callbacks")
         /\ (r.pc = "callbacks" /\ q.n > r.n) =>
              (q.changes = r.changes /\ q.created = r.created)
         /\ (r.pc = "idle" /\ q.n > r.n) =>
              (q.pc = "callbacks" /\ q.changes \cup q.created # {}) ]_vars

\* a callback has thrown and the flag is left set with no pass running
C36_Blocked ==
  /\ reaction[1].pc = "idle"
  /\ reaction[1].inhibit

(***************************************************************************)
(* SpecPlugins: the plugins reducer under the actions of the core          *)
(***************************************************************************)
PluginIds == {"bitcoin", "shapeshift"}

\* a plugin has currencyInfo, rateInfo or swapInfo, some of them or none
PluginKinds == {{}, {"currencyInfo"}, {"rateInfo"}, {"swapInfo"}, {"currencyInfo", "swapInfo"}}

Plugin(kinds) == [k \in kinds |-> Str(k)]

\* the payloads of CORE_PLUGINS_ADDED
PluginPayloads ==
  UNION {[ids -> {Plugin(kinds) : kinds \in PluginKinds}] : ids \in SUBSET PluginIds}

\* the actions the reducer is sent
PluginActions ==
  {[type |-> "CORE_PLUGINS_ADDED", payload |-> p] : p \in PluginPayloads} \cup
  {[type |-> "CORE_PLUGINS_LOCKED", payload |-> EmptyObj]} \cup
  {[type |-> "CURRENCY_TOOLS_LOADED", payload |-> [pluginId |-> id, tools |-> Str("tools")]] :
     id \in PluginIds} \cup
  {[type |-> "INIT", payload |-> [pluginsInit |-> init]] :
     init \in {EmptyObj, [bitcoin |-> Bool(TRUE)]}} \cup
  {[type |-> t, payload |-> EmptyObj] : t \in {"LOGIN", "CURRENCY_ENGINE_STOPPED"}}

initialState ==
  [init |-> EmptyObj, locked |-> FALSE, currency |-> EmptyObj, rate |-> EmptyObj,
   swap |-> EmptyObj, currencyTools |-> EmptyObj]

\* the plugins of a payload that have the info
PluginsWith(payload, info) ==
  [id \in {i \in DOMAIN payload : info \in DOMAIN payload[i]} |-> payload[id]]

\* mutant: the added plugins replace the ones there were
plugins_replaces(state, action) ==
  IF action.type = "CORE_PLUGINS_ADDED"
  THEN [state EXCEPT !.currency = PluginsWith(action.payload, "currencyInfo"),
                     !.rate = PluginsWith(action.payload, "rateInfo"),
                     !.swap = PluginsWith(action.payload, "swapInfo")]
  ELSE IF action.type = "CORE_PLUGINS_LOCKED" THEN [state EXCEPT !.locked = TRUE]
  ELSE state

\* the reducer
plugins(state, action) ==
  CASE action.type = "CORE_PLUGINS_ADDED" ->
         [state EXCEPT !.currency = Spread(state.currency, PluginsWith(action.payload, "currencyInfo")),
                       !.rate = Spread(state.rate, PluginsWith(action.payload, "rateInfo")),
                       !.swap = Spread(state.swap, PluginsWith(action.payload, "swapInfo"))]
    [] action.type = "CORE_PLUGINS_LOCKED" -> [state EXCEPT !.locked = TRUE]
    [] action.type = "CURRENCY_TOOLS_LOADED" ->
         [state EXCEPT !.currencyTools =
            Spread(state.currencyTools, [id \in {action.payload.pluginId} |-> action.payload.tools])]
    [] action.type = "INIT" -> [state EXCEPT !.init = action.payload.pluginsInit]
    [] OTHER -> state

InitPlugins ==
  /\ pluginsState = Some([state |-> initialState, last |-> None, n |-> 0])
  /\ stashes = EmptyObj
  /\ userIdCache = EmptyObj
  /\ scrypts = EmptyObj
  /\ pc = [p \in Procs |-> "idle"]
  /\ call = [p \in Procs |-> NoCall]
  /\ rnd = 1
  /\ clock = 0
  /\ nCalls = 0
  /\ kin = NoKin
  /\ mKits = [keys |-> dummyKit, password |-> dummyKit, pin2 |-> dummyKit]
  /\ mKit = NoKit
  /\ norm = NoNorm
  /\ otp = None
  /\ acct = None
  /\ vouch = None
  /\ accounts = EmptyObj
  /\ msgs = None
  /\ quotes = None
  /\ sorted = None
  /\ reaction = None

\* an action is dispatched
dispatchPlugins(action) ==
  /\ pluginsState[1].n < MaxActions
  /\ pluginsState' = Some([state |-> plugins(pluginsState[1].state, action),
                           last |-> Some(action), n |-> pluginsState[1].n + 1])
  /\ UNCHANGED <<loginVars, kitVars, norm, otp, acct, vouch, accounts, msgs, quotes, sorted, reaction>>

NextPlugins == \E action \in PluginActions : dispatchPlugins(action)

SpecPlugins == InitPlugins /\ [][NextPlugins]_vars

(***************************************************************************)
(* Properties of the plugins reducer (SpecPlugins)                         *)
(***************************************************************************)
\* the actions the reducer has a case for
PluginCases == {"CORE_PLUGINS_ADDED", "CORE_PLUGINS_LOCKED", "CURRENCY_TOOLS_LOADED", "INIT"}

\* C37: in the plugins reducer locked is monotonic and the plugin maps only
\* grow.  Once locked is true it stays true under every action, no action
\* removes an entry from currency, rate or swap, CORE_PLUGINS_LOCKED sets
\* locked, and an action other than CORE_PLUGINS_ADDED, CORE_PLUGINS_LOCKED,
\* CURRENCY_TOOLS_LOADED and INIT leaves the state unchanged.
C37_LockedAndGrowing ==
  [][ LET old == pluginsState[1].state
          new == pluginsState'[1].state
          action == pluginsState'[1].last[1]
      IN /\ old.locked => new.locked
         /\ action.type = "CORE_PLUGINS_LOCKED" => new.locked
         /\ \A m \in {"currency", "rate", "swap"} : DOMAIN old[m] \subseteq DOMAIN new[m]
         /\ action.type \notin PluginCases => new = old ]_vars

\* plugins were added after the lock, to the ones there were
C37_Witness ==
  /\ pluginsState[1].state.locked
  /\ pluginsState[1].last # None
  /\ pluginsState[1].last[1].type = "CORE_PLUGINS_ADDED"
  /\ DOMAIN pluginsState[1].last[1].payload = {"shapeshift"}
  /\ DOMAIN pluginsState[1].state.swap = {"bitcoin", "shapeshift"}

(***************************************************************************)
(* SpecFail: hashUsername, usernameAvailable and createLogin called from   *)
(* two contexts, each caller with its own ApiInput, on a cache that the    *)
(* stretching computations of earlier calls may have filled                *)
(***************************************************************************)
\* "B", "b" and "a"
FailNames == {<<66>>, <<98>>, <<97>>}

\* no credential
FailOpts == {o \in OptsSet : o.password = None /\ o.pin = None /\ o.keyInfo = None}

NextFail ==
  \/ \E p \in Procs, u \in FailNames : callHashUsername(p, u)
  \/ \E p \in Procs, u \in FailNames : usernameAvailable(p, u)
  \/ \E p \in Procs, u \in FailNames, o \in FailOpts : createLogin(p, u, None, o, "none")
  \/ \E name \in DOMAIN userIdCache : scryptResolve(name)
  \/ \E name \in DOMAIN userIdCache : scryptReject(name)
  \/ \E p \in Procs : hashResolved(p)
  \/ \E p \in Procs : hashRejected(p)
  \/ \E p \in Procs : kitResolved(p)
  \/ \E p \in Procs : kitRejected(p)
  \/ \E p \in Procs, r \in ServerReplies : probeOk(p, r)
  \/ \E p \in Procs, e \in ServerErrors : probeFail(p, e)
  \/ \E p \in Procs : fetchOk(p)
  \/ \E p \in Procs : fetchFail(p)
  \/ \E p \in Procs : saveOk(p)
  \/ \E p \in Procs : saveFail(p)
  \/ \E p \in Procs : settle(p)

SpecFail == InitCache /\ [][NextFail]_vars

(***************************************************************************)
(* Properties of a failed username hash (SpecFail)                         *)
(***************************************************************************)
\* the calls that wait on the username hash
UsesHash(p) ==
  /\ call[p].kind \in {"hashUsername", "usernameAvailable", "createLogin"}
  /\ call[p].userIdKey # <<>>

\* the stretching of the name has rejected
HashFailed(name) == name \in DOMAIN userIdCache /\ userIdCache[name].state = "rejected"

\* C32: a failed username hash is cached like a successful one.  Once the
\* stretching of a normalised username has rejected, its cache entry stays
\* as it is and the stretching function is not invoked for the name again;
\* every hashUsername, usernameAvailable or root createLogin for the name,
\* from whichever context, is still waiting or has been rejected with the
\* cached rejection, and none has got a hash, sent a request or completed.
C32_FailureCached ==
  [][ \A name \in DOMAIN userIdCache :
        HashFailed(name) =>
          /\ userIdCache'[name] = userIdCache[name]
          /\ scrypts'[name] = 1
          /\ \A p \in Procs :
               (UsesHash(p)' /\ call'[p].userIdKey = name) =>
                 /\ pc'[p] \in {"awaitHash", "awaitKit", "rejected"}
                 /\ call'[p].sent = <<>>
                 /\ call'[p].ret = None
                 /\ pc'[p] = "rejected" =>
                      /\ call'[p].error = "hash"
                      /\ call'[p].thrown = userIdCache[name].value ]_vars

\* the stretching of "b" has failed: a hashUsername for "b" from one context
\* and a createLogin for "B" from the other one are rejected with the same
\* error, the stretching having run once
C32_Witness ==
  /\ HashFailed(<<98>>)
  /\ call[1].kind = "hashUsername" /\ call[1].input = <<98>>
  /\ call[2].kind = "createLogin" /\ call[2].input = <<66>>
  /\ pc[1] = "rejected" /\ pc[2] = "rejected"
  /\ call[1].thrown = call[2].thrown /\ call[2].thrown = Some(ScryptFailure)
  /\ scrypts[<<98>>] = 1

(***************************************************************************)
(* SpecPair: two callers that create logins at the same time, for the same *)
(* username or for different ones                                          *)
(***************************************************************************)
\* "B" and "a<tab> "
PairNames == {<<66>>, <<97, 9, 32>>}

\* no credential, or a password
PairOpts == {o \in OptsSet : o.pin = None /\ o.keyInfo = None}

NextPair ==
  \/ \E p \in Procs, u \in PairNames, o \in PairOpts : createLogin(p, u, None, o, "none")
  \/ \E name \in DOMAIN userIdCache : scryptResolve(name)
  \/ \E name \in DOMAIN userIdCache : scryptReject(name)
  \/ \E p \in Procs : kitResolved(p)
  \/ \E p \in Procs : kitRejected(p)
  \/ \E p \in Procs : fetchOk(p)
  \/ \E p \in Procs : fetchFail(p)
  \/ \E p \in Procs : saveOk(p)
  \/ \E p \in Procs : saveFail(p)
  \/ \E p \in Procs : settle(p)

SpecPair == Init /\ [][NextPair]_vars

(***************************************************************************)
(* Properties of concurrent calls (SpecPair)                               *)
(***************************************************************************)
\* the other caller
Other(p) == 3 - p

\* both callers are inside createLogin, for different usernames
InFlightApart ==
  /\ \A p \in Procs : call[p].kind = "createLogin" /\ call[p].userIdKey # <<>>
  /\ call[1].userIdKey # call[2].userIdKey

\* C28: concurrent logins do not block or disturb each other.  With two
\* createLogin calls for different usernames in flight, wherever the other
\* one is suspended and however it ended, a call that waits for the server
\* or for the disk can always be answered, its kit has its own username,
\* loginId and boxes, and once the server has accepted it and it has
\* completed (each caller being in its first call, so that no earlier save
\* is pending), the stash under its username is the one of its own kit.
C28_NoInterference ==
  InFlightApart =>
    \A p \in Procs :
      LET c == call[p]
          name == fixUsername(c.input).val
      IN /\ pc[p] = "fetching" => ENABLED fetchOk(p)
         /\ pc[p] = "saving" => ENABLED saveOk(p)
         /\ pc[p] \in {"fetching", "saving", "done"} =>
              /\ c.kit.stash.username = Name(name)
              /\ c.kit.stash.loginId = Base64Stringify(Scrypt(name))
              /\ c.kit.stash.loginAuthBox = Encrypt(c.loginAuth[1], c.loginKey[1])
              /\ c.loginKey # call[Other(p)].loginKey
              /\ c.loginAuth # call[Other(p)].loginAuth
         /\ (pc[p] = "done" /\ nCalls <= 2) =>
              /\ name \in DOMAIN stashes
              /\ stashes[name] = c.kit.stash

\* one call has completed while the other one, for another username, was
\* refused by the server
C28_Witness ==
  /\ InFlightApart
  /\ pc[1] = "rejected" /\ call[1].error = "server"
  /\ pc[2] = "done"
  /\ call[2].rndAt > call[1].rndAt
  /\ DOMAIN stashes = {call[2].userIdKey}

\* C29: saving a stash is last-writer-wins.  When a save completes, the
\* stash persisted under its username is exactly the stash of that save,
\* with no field of the stash that was there before, and the stashes of the
\* other usernames are as they were.
C29_LastWriterWins ==
  [][ \A p \in Procs :
        (pc[p] = "saving" /\ pc'[p] = "done") =>
          LET name == call[p].username
          IN /\ DOMAIN stashes' = DOMAIN stashes \cup {name}
             /\ stashes'[name] = call[p].kit.stash
             /\ \A n \in DOMAIN stashes \ {name} : stashes'[n] = stashes[n] ]_vars

\* two calls for one username have both saved; the stash with the password
\* box was saved first, the one without it last
C29_Witness ==
  /\ pc[1] = "done" /\ pc[2] = "done"
  /\ call[1].username = call[2].username
  /\ call[1].opts.password # None /\ call[2].opts.password = None
  /\ stashes[call[2].username] = call[2].kit.stash
  /\ "passwordAuthBox" \notin DOMAIN stashes[call[2].username]

(***************************************************************************)
(* SpecKit: makeCreateKit applied to every parent, appId, username and     *)
(* combination of options                                                  *)
(***************************************************************************)
InitKit ==
  /\ stashes = EmptyObj
  /\ userIdCache = EmptyObj
  /\ scrypts = EmptyObj
  /\ pc = [p \in Procs |-> "idle"]
  /\ call = [p \in Procs |-> NoCall]
  /\ rnd = 1
  /\ clock = 0
  /\ nCalls = 0
  /\ kin \in KitInputs
  /\ mKits = [keys |-> dummyKit, password |-> dummyKit, pin2 |-> dummyKit]
  /\ mKit = NoKit
  /\ ExtraInit

NextKit ==
  \/ callMakeCreateKit(1, kin.parent, kin.appId, kin.username, kin.opts, kin.fault)
  \/ \E name \in DOMAIN userIdCache : scryptResolve(name)
  \/ \E name \in DOMAIN userIdCache : scryptReject(name)
  \/ kitResolved(1)
  \/ kitRejected(1)
  \/ settle(1)

SpecKit == InitKit /\ [][NextKit]_vars

(***************************************************************************)
(* Properties of makeCreateKit (SpecKit)                                   *)
(***************************************************************************)
\* the kit makeCreateKit resolved with, and the call that built it
KitBuilt == pc[1] = "kitDone"
TheKit == call[1].kit

\* C4: the creation kit is internally consistent.  kit.loginId and the
\* loginId of server, stash and login are equal; appId is the same in the
\* three fragments; server and stash hold the same loginAuthBox; the
\* loginAuth the server gets (base64 on the wire) is login.loginAuth; and
\* stash.loginAuthBox decrypts under login.loginKey to login.loginAuth.
C4_KitConsistent ==
  KitBuilt =>
    LET k == TheKit
    IN /\ k.loginId = k.server.loginId
       /\ k.loginId = k.stash.loginId
       /\ k.loginId = k.login.loginId
       /\ k.server.appId = Str(kin.appId)
       /\ k.stash.appId = k.server.appId
       /\ k.login.appId = k.server.appId
       /\ k.server.loginAuthBox = k.stash.loginAuthBox
       /\ Base64Parse(k.server.loginAuth) = k.login.loginAuth
       /\ Decrypt(k.stash.loginAuthBox, k.login.loginKey) = Some(k.login.loginAuth)

\* a child kit under a parent, for a non-root appId, with every option
C4_Witness ==
  /\ KitBuilt
  /\ kin.parent # None
  /\ kin.appId # ""
  /\ kin.opts.password # None /\ kin.opts.pin # None /\ kin.opts.keyInfo # None

SampleLogin == [appId |-> "", loginKey |-> Random(32, 0)]
PasswordFields(frag) == DOMAIN makePasswordKit(SampleLogin, <<>>, "")[frag]
Pin2Fields(frag) == DOMAIN makeChangePin2Kit(SampleLogin, <<>>, "")[frag]
KeysFields(frag) == DOMAIN makeKeysKit(SampleLogin, "")[frag]

BaseFields(frag) ==
  IF frag = "server" THEN {"appId", "loginId", "loginAuth", "loginAuthBox"}
  ELSE IF frag = "stash" THEN {"appId", "loginId", "loginAuthBox"}
  ELSE {"appId", "loginId", "loginAuth", "loginKey", "keyInfos"}

\* C6: for every combination of opts the merged kit carries the secret-key
\* fields (server.loginAuth, server.loginAuthBox, stash.loginAuthBox,
\* login.loginAuth), and in each fragment the fields of the password, pin2
\* and keys kits exactly when the corresponding opt is supplied; with an opt
\* absent the fragment has no field from that protocol.
C6_KitFields ==
  KitBuilt =>
    /\ {"loginAuth", "loginAuthBox"} \subseteq DOMAIN TheKit.server
    /\ "loginAuthBox" \in DOMAIN TheKit.stash
    /\ "loginAuth" \in DOMAIN TheKit.login
    /\ TheKit.stash.loginAuthBox = Encrypt(TheKit.login.loginAuth, TheKit.login.loginKey)
    /\ \A frag \in {"server", "stash", "login"} :
         DOMAIN TheKit[frag] =
           BaseFields(frag)
             \cup (IF frag # "login" /\ kin.parent # None THEN {"parentBox"} ELSE {})
             \cup (IF kin.opts.password # None THEN PasswordFields(frag) ELSE {})
             \cup (IF kin.opts.pin # None THEN Pin2Fields(frag) ELSE {})
             \cup (IF kin.opts.keyInfo # None THEN KeysFields(frag) ELSE {})
    /\ kin.opts.keyInfo = None <=> TheKit.login.keyInfos = List(<<>>)

\* a kit built with a password but neither PIN nor keys
C6_Witness ==
  /\ KitBuilt
  /\ kin.opts.password # None /\ kin.opts.pin = None /\ kin.opts.keyInfo = None
  /\ "passwordAuth" \in DOMAIN TheKit.server
  /\ "pin2Id" \notin DOMAIN TheKit.server

\* the values a fragment field holds: the elements of an array, or the value
Held(v) == IF v[1] = "list" THEN {v[2][i] : i \in DOMAIN v[2]} ELSE {v}

DrawnByCall(v) == IsBytes32(v) /\ v[3] >= call[1].rndAt /\ v[3] < rnd

\* C9: without a parent the loginId is base64(hashUsername(username)); with
\* a parent it is (the base64 of) a 32-byte value from the call's own draw
\* of the random source, different from the draws for loginKey and
\* loginAuth, and the username hash is not computed at all.
C9_LoginId ==
  KitBuilt =>
    IF kin.parent = None
    THEN TheKit.loginId = Base64Stringify(Scrypt(fixUsername(kin.username).val))
    ELSE /\ Len(TheKit.loginId) = 2
         /\ TheKit.loginId[1] = "b64"
         /\ DrawnByCall(Base64Parse(TheKit.loginId))
         /\ Base64Parse(TheKit.loginId) # TheKit.login.loginKey
         /\ Base64Parse(TheKit.loginId) # TheKit.login.loginAuth
         /\ DOMAIN userIdCache = {}

\* a child kit, built when an earlier call has already drawn random values
C9_Witness ==
  /\ KitBuilt
  /\ kin.parent # None
  /\ call[1].rndAt > 1

\* a root kit for a username that normalisation changes
C9_WitnessRoot ==
  /\ KitBuilt
  /\ kin.parent = None
  /\ kin.username # fixUsername(kin.username).val

\* C10: every created login gets a fresh random 32-byte loginKey; parentBox
\* is in the server and stash fragments if and only if there is a parent
\* login, and then it decrypts under the parent's loginKey to exactly the
\* child's loginKey.
C10_LoginKeyAndParentBox ==
  KitBuilt =>
    LET k == TheKit
    IN /\ DrawnByCall(k.login.loginKey)
       /\ k.login.loginKey # k.login.loginAuth
       /\ k.login.loginKey # Base64Parse(k.loginId)
       /\ "parentBox" \in DOMAIN k.server <=> kin.parent # None
       /\ "parentBox" \in DOMAIN k.stash <=> kin.parent # None
       /\ kin.parent # None =>
            /\ k.login.loginKey # kin.parent[1].loginKey
            /\ k.server.parentBox = k.stash.parentBox
            /\ IsBox(k.server.parentBox)
            /\ Decrypt(k.server.parentBox, kin.parent[1].loginKey) = Some(k.login.loginKey)

\* a child kit with its parentBox, after an earlier kit for the same login
C10_Witness ==
  /\ KitBuilt
  /\ kin.parent # None
  /\ "parentBox" \in DOMAIN TheKit.stash
  /\ call[1].rndAt > 1

(***************************************************************************)
(* SpecMerge: the merge of makeCreateKit applied to kits that may set the  *)
(* same fields.  Kit k sets each of its fields to <<"by", k>>.             *)
(***************************************************************************)
MergeFields == {"x", "y", "loginAuthBox"}

KitSetting(k, fields) ==
  LET frag == [f \in fields |-> <<"by", k>>]
  IN [server |-> frag, stash |-> frag, login |-> frag]

InitMerge ==
  /\ stashes = EmptyObj
  /\ userIdCache = EmptyObj
  /\ scrypts = EmptyObj
  /\ pc = [p \in Procs |-> "idle"]
  /\ call = [p \in Procs |-> NoCall]
  /\ rnd = 1
  /\ clock = 0
  /\ nCalls = 0
  /\ kin = NoKin
  /\ \E dk \in SUBSET MergeFields, dp \in SUBSET MergeFields, d2 \in SUBSET MergeFields :
       mKits = [keys |-> KitSetting("keys", dk),
                password |-> KitSetting("password", dp),
                pin2 |-> KitSetting("pin2", d2)]
  /\ mKit = NoKit
  /\ ExtraInit

mergeKits ==
  /\ mKit = NoKit
  /\ mKit' = makeCreateKit(Scrypt(<<98>>), "", Random(32, 1), Random(32, 2), None,
                           mKits.keys, mKits.password, mKits.pin2)
  /\ UNCHANGED <<loginVars, kin, mKits, norm, otp, acct, vouch, accounts, coreVars>>

SpecMerge == InitMerge /\ [][mergeKits]_vars

(***************************************************************************)
(* Properties of the merge (SpecMerge)                                     *)
(***************************************************************************)
\* the kits that set field f, in the order wallet-keys, password, pin2
SettersOf(frag, f) ==
  SelectSeq(<<"keys", "password", "pin2">>, LAMBDA k : f \in DOMAIN mKits[k][frag])

\* the fields the secret-key kit sets in a fragment
SecretFields(frag) ==
  IF frag = "server" THEN {"loginAuth", "loginAuthBox"}
  ELSE IF frag = "stash" THEN {"loginAuthBox"} ELSE {"loginAuth"}

\* C5: when two protocol kits set the same field, the kit later in the order
\* wallet-keys, password, pin2, secret-key wins, in each of the fragments
\* server, stash and login; a field only one kit sets keeps that kit's value.
C5_LaterKitWins ==
  mKit # NoKit =>
    \A frag \in {"server", "stash", "login"} : \A f \in MergeFields :
      LET setters == SettersOf(frag, f)
      IN IF f \in SecretFields(frag)
         THEN mKit[frag][f] = Encrypt(Random(32, 2), Random(32, 1))
         ELSE setters # <<>> =>
                /\ f \in DOMAIN mKit[frag]
                /\ mKit[frag][f] = <<"by", setters[Len(setters)]>>

====
